---- MODULE Spec2Model ----
(***************************************************************************)
(* Model of packages/analysis/ai_analyze.py: the chat style profiler.      *)
(*                                                                         *)
(* A text is a sequence of one-character strings.  The zero-width space    *)
(* U+200B is written "ZWSP"; it is one character of the text.              *)
(* A Counter is modelled as the sequence of its <<key, count>> items in    *)
(* insertion order (the iteration order of a Python dict).                 *)
(* A float that the program computes as a quotient is kept as an exact     *)
(* fraction <<numerator, denominator>>; the natural logarithm is tabulated *)
(* in units of 1/LnScale.                                                  *)
(***************************************************************************)
EXTENDS Integers, Sequences, FiniteSets, TLC

(***************************************************************************)
(* Characters                                                              *)
(***************************************************************************)
LowerSeq ==
  <<"a","b","c","d","e","f","g","h","i","j","k","l","m",
    "n","o","p","q","r","s","t","u","v","w","x","y","z">>

UpperSeq ==
  <<"A","B","C","D","E","F","G","H","I","J","K","L","M",
    "N","O","P","Q","R","S","T","U","V","W","X","Y","Z">>

LowerLetters == {LowerSeq[i] : i \in DOMAIN LowerSeq}

UpperLetters == {UpperSeq[i] : i \in DOMAIN UpperSeq}

Digits == {"0","1","2","3","4","5","6","7","8","9"}

Whitespace == {" ", "\n", "\t"}

\* str.lower() on one character
LowerChar(c) ==
  IF c \in UpperLetters
    THEN LowerSeq[CHOOSE i \in DOMAIN UpperSeq : UpperSeq[i] = c]
    ELSE c

\* str.lower()
Lower(text) == [i \in DOMAIN text |-> LowerChar(text[i])]

\* the class [a-z0-9'] of tokenize
TokenChars == LowerLetters \cup Digits \cup {"'"}

\* the class [A-Za-z0-9'] of basic_words
WordChars == TokenChars \cup UpperLetters

(***************************************************************************)
(* normalize_content                                                       *)
(***************************************************************************)
\* text[i..] starts with the characters of prefix
StartsWithAt(text, i, prefix) ==
  /\ i + Len(prefix) - 1 <= Len(text)
  /\ \A j \in 1..Len(prefix) : text[i + j - 1] = prefix[j]

\* length of the scheme of a match of https?://\S+ at position i, 0 if none
UrlSchemeLen(text, i) ==
  LET http  == <<"h","t","t","p",":","/","/">>
      https == <<"h","t","t","p","s",":","/","/">>
      follows(n) == /\ i + n <= Len(text)
                    /\ text[i + n] \notin Whitespace
  IN  IF StartsWithAt(text, i, https) /\ follows(Len(https)) THEN Len(https)
      ELSE IF StartsWithAt(text, i, http) /\ follows(Len(http)) THEN Len(http)
      ELSE 0

\* first position >= i that holds whitespace, Len(text)+1 if none: the end of \S+
RECURSIVE EndOfNonSpace(_, _)
EndOfNonSpace(text, i) ==
  IF i > Len(text) \/ text[i] \in Whitespace THEN i
  ELSE EndOfNonSpace(text, i + 1)

\* re.sub(r"https?://\S+", " ", text), scanning from position i
RECURSIVE SubUrlsFrom(_, _)
SubUrlsFrom(text, i) ==
  IF i > Len(text) THEN <<>>
  ELSE IF UrlSchemeLen(text, i) > 0
    THEN <<" ">> \o SubUrlsFrom(text, EndOfNonSpace(text, i + UrlSchemeLen(text, i)))
    ELSE <<text[i]>> \o SubUrlsFrom(text, i + 1)

SubUrls(text) == SubUrlsFrom(text, 1)

\* text.replace("\u200b", " ")
ReplaceZwsp(text) == [i \in DOMAIN text |-> IF text[i] = "ZWSP" THEN " " ELSE text[i]]

\* str.strip()
Strip(text) ==
  LET keep == {i \in DOMAIN text : text[i] \notin Whitespace}
  IN  IF keep = {} THEN <<>>
      ELSE LET lo == CHOOSE i \in keep : \A j \in keep : i <= j
               hi == CHOOSE i \in keep : \A j \in keep : j <= i
           IN  SubSeq(text, lo, hi)

\* normalize_content without the final strip()
normalize_content_unstripped(text) == ReplaceZwsp(SubUrls(text))

normalize_content(text) == Strip(ReplaceZwsp(SubUrls(text)))

(***************************************************************************)
(* tokenize, basic_words                                                   *)
(***************************************************************************)
NOISE_TOKENS == { <<"m","i","s","s","i","n","g">> }

\* first position >= i that holds no character of class, Len(text)+1 if none
RECURSIVE EndOfRun(_, _, _)
EndOfRun(text, i, class) ==
  IF i > Len(text) \/ text[i] \notin class THEN i
  ELSE EndOfRun(text, i + 1, class)

\* re.findall(r"[class]+", text), scanning from position i
RECURSIVE FindRunsFrom(_, _, _)
FindRunsFrom(text, i, class) ==
  IF i > Len(text) THEN <<>>
  ELSE IF text[i] \in class
    THEN LET e == EndOfRun(text, i, class)
         IN  <<SubSeq(text, i, e - 1)>> \o FindRunsFrom(text, e, class)
    ELSE FindRunsFrom(text, i + 1, class)

FindRuns(text, class) == FindRunsFrom(text, 1, class)

MinTokenLenExclusive == 1

MaxTokenLen == 30

NumericIdLen == 5

is_numeric_id(token) ==
  /\ token # <<>>
  /\ \A i \in DOMAIN token : token[i] \in Digits
  /\ Len(token) >= NumericIdLen

basic_words(text) ==
  SelectSeq(FindRuns(text, WordChars), LAMBDA w : Lower(w) \notin NOISE_TOKENS)

\* tokenize with len(t) < 30 for len(t) <= 30
tokenize_short(text) ==
  SelectSeq(FindRuns(Lower(text), TokenChars),
            LAMBDA t : /\ MinTokenLenExclusive < Len(t)
                       /\ Len(t) < MaxTokenLen
                       /\ t \notin NOISE_TOKENS
                       /\ ~is_numeric_id(t))

tokenize(text) ==
  SelectSeq(FindRuns(Lower(text), TokenChars),
            LAMBDA t : /\ MinTokenLenExclusive < Len(t)
                       /\ Len(t) <= MaxTokenLen
                       /\ t \notin NOISE_TOKENS
                       /\ ~is_numeric_id(t))

(***************************************************************************)
(* The texts of the model, and normalize_content and tokenize looked up    *)
(* for them: a text is normalized and tokenized once, however often a      *)
(* message list repeats it                                                 *)
(***************************************************************************)
TextGG == <<"g","g"," ","g","g"," ","g","g">>

TextNice ==
  <<"n","i","c","e"," ","g","a","m","e"," ","w","e","l","l"," ",
    "p","l","a","y","e","d">>

TextUrl == <<"h","t","t","p","s",":","/","/","x",".","g","g">>

TextGGUrl == <<"G","G"," ","g","g"," ","g","g"," ","h","t","t","p",":","/","/","a",".","b","\n">>

TextWords == <<"a"," ","b">>

TextGGWP == <<"g","g"," ","w","p">>

TextGGLink ==
  <<"g","g"," ","g","g"," ","g","g"," ","h","t","t","p","s",":","/","/","x",".","g","g">>

TextWPGG == <<"w","p"," ","g","g"," ","w","p">>

\* one token
TextOne == <<"g","g">>

\* nine tokens, none twice
TextNine ==
  <<"a","a"," ","b","b"," ","c","c"," ","d","d"," ","e","e"," ","f","f"," ",
    "g","g"," ","h","h"," ","i","i">>

ModelTexts ==
  {TextGG, TextNice, TextUrl, TextGGUrl, Strip(TextGGUrl), TextWords, TextGGWP,
   TextGGLink, TextWPGG, TextOne, TextNine}

NormalizedTexts ==
  LET t == [m \in ModelTexts |-> normalize_content(m)]
  IN  IF t = t THEN t ELSE t

TokenizedTexts ==
  LET t == [m \in {NormalizedTexts[x] : x \in ModelTexts} |-> tokenize(m)]
  IN  IF t = t THEN t ELSE t

\* normalize_content(msg)
Normalized(msg) ==
  IF msg \in DOMAIN NormalizedTexts THEN NormalizedTexts[msg] ELSE normalize_content(msg)

\* tokenize(text)
Tokenized(text) ==
  IF text \in DOMAIN TokenizedTexts THEN TokenizedTexts[text] ELSE tokenize(text)

(***************************************************************************)
(* dict, defaultdict and Counter: sequences of <<key, value>> items in     *)
(* insertion order                                                         *)
(***************************************************************************)
Keys(d) == {d[i][1] : i \in DOMAIN d}

KeySeq(d) == [i \in DOMAIN d |-> d[i][1]]

\* d.get(k, default); on a defaultdict, d[k] (a read of a missing key stores the
\* default under k, which leaves the value of every lookup as it was)
Lookup(d, k, default) ==
  IF k \in Keys(d) THEN d[CHOOSE i \in DOMAIN d : d[i][1] = k][2] ELSE default

\* d[k] = v
Store(d, k, v) ==
  IF k \in Keys(d)
    THEN [d EXCEPT ![CHOOSE i \in DOMAIN d : d[i][1] = k] = <<k, v>>]
    ELSE Append(d, <<k, v>>)

\* Counter.update(keys) for a sequence of keys: one more for each element
RECURSIVE CounterUpdate(_, _)
CounterUpdate(c, keys) ==
  IF keys = <<>> THEN c
  ELSE CounterUpdate(Store(c, Head(keys), Lookup(c, Head(keys), 0) + 1), Tail(keys))

\* seq[lo] + ... + seq[hi], summed by halves
RECURSIVE SumRange(_, _, _)
SumRange(seq, lo, hi) ==
  IF lo > hi THEN 0
  ELSE IF lo = hi THEN seq[lo]
  ELSE SumRange(seq, lo, (lo + hi) \div 2) + SumRange(seq, (lo + hi) \div 2 + 1, hi)

SumSeq(seq) == SumRange(seq, 1, Len(seq))

\* sum(counter.values())
CounterTotal(c) == SumSeq([i \in DOMAIN c |-> c[i][2]])

(***************************************************************************)
(* Fractions <<n, d>> with d > 0, sorting, slicing                         *)
(***************************************************************************)
FracGT(x, y) == x[1] * y[2] > y[1] * x[2]

FracEQ(x, y) == x[1] * y[2] = y[1] * x[2]

\* idx, a sequence of positions of vals in non-increasing order of value, with
\* position i added behind every position whose value is >= vals[i]
InsertDesc(idx, i, vals) ==
  LET before == {j \in DOMAIN idx : ~FracGT(vals[i], vals[idx[j]])}
      n      == Cardinality(before)
  IN  SubSeq(idx, 1, n) \o <<i>> \o SubSeq(idx, n + 1, Len(idx))

RECURSIVE SortedPositionsFrom(_, _, _)
SortedPositionsFrom(idx, i, vals) ==
  IF i > Len(vals) THEN idx
  ELSE SortedPositionsFrom(InsertDesc(idx, i, vals), i + 1, vals)

\* the positions of vals as sorted(..., reverse=True) orders them: by value,
\* largest first, equal values in their original order (the sort is stable)
SortedPositions(vals) == SortedPositionsFrom(<<>>, 1, vals)

\* seq[:limit]
Slice(seq, limit) ==
  IF limit >= 0
    THEN SubSeq(seq, 1, IF limit < Len(seq) THEN limit ELSE Len(seq))
    ELSE SubSeq(seq, 1, Len(seq) + limit)

\* top_items without the cut to limit
top_items_uncut(counter, limit) ==
  LET idx == SortedPositions([i \in DOMAIN counter |-> <<counter[i][2], 1>>])
  IN  [j \in DOMAIN idx |-> counter[idx[j]]]

\* top_items that sorts by count, smallest first
top_items_ascending(counter, limit) ==
  LET idx == SortedPositions([i \in DOMAIN counter |-> <<0 - counter[i][2], 1>>])
  IN  Slice([j \in DOMAIN idx |-> counter[idx[j]]], limit)

top_items(counter, limit) ==
  LET idx == SortedPositions([i \in DOMAIN counter |-> <<counter[i][2], 1>>])
  IN  Slice([j \in DOMAIN idx |-> counter[idx[j]]], limit)

(***************************************************************************)
(* percentile; pct is a fraction <<n, d>>, the result a fraction           *)
(***************************************************************************)
\* sorted(data)
SortedData(data) ==
  LET idx == SortedPositions([i \in DOMAIN data |-> <<0 - data[i], 1>>])
  IN  [j \in DOMAIN idx |-> data[idx[j]]]

\* percentile that reads data as it stands
percentile_unsorted(data, pct) ==
  IF data = <<>> THEN <<0, 1>>
  ELSE LET k_num == (Len(data) - 1) * pct[1]
           low   == k_num \div pct[2]
           high  == IF k_num % pct[2] = 0 THEN low ELSE low + 1
       IN  IF low = high THEN <<data[low + 1], 1>>
           ELSE <<data[low + 1] * pct[2]
                    + (data[high + 1] - data[low + 1]) * (k_num - low * pct[2]),
                  pct[2]>>

percentile(data, pct) ==
  IF data = <<>> THEN <<0, 1>>
  ELSE LET sorted_data == SortedData(data)
           k_num == (Len(sorted_data) - 1) * pct[1]
           low   == k_num \div pct[2]
           high  == IF k_num % pct[2] = 0 THEN low ELSE low + 1
       IN  IF low = high THEN <<sorted_data[low + 1], 1>>
           ELSE <<sorted_data[low + 1] * pct[2]
                    + (sorted_data[high + 1] - sorted_data[low + 1])
                        * (k_num - low * pct[2]),
                  pct[2]>>

(***************************************************************************)
(* compute_tfidf                                                           *)
(*                                                                         *)
(* A weight map is [den |-> d, items |-> <<token, n>> ...]: the weight of  *)
(* token is n / d.  compute_tfidf gives every weight of one author the     *)
(* denominator max_tf * LnScale.                                           *)
(***************************************************************************)
LnScale == 1000

\* round(LnScale * ln(n)) for n = 1..12
LnTable == <<0, 693, 1099, 1386, 1609, 1792, 1946, 2079, 2197, 2303, 2398, 2485>>

\* Idf with the quotient of the logarithm turned over
IdfSwapped(doc_count, df) == LnTable[1 + df] - LnTable[1 + doc_count] + LnScale

\* Idf without + 1.0
IdfPlain(doc_count, df) == LnTable[1 + doc_count] - LnTable[1 + df]

\* LnScale * (math.log((1 + doc_count) / (1 + df)) + 1.0)
Idf(doc_count, df) == LnTable[1 + doc_count] - LnTable[1 + df] + LnScale

\* df = Counter(); for counts in doc_tokens.values(): df.update(counts.keys())
RECURSIVE DocFreqFrom(_, _, _)
DocFreqFrom(df, doc_tokens, i) ==
  IF i > Len(doc_tokens) THEN df
  ELSE DocFreqFrom(CounterUpdate(df, KeySeq(doc_tokens[i][2])), doc_tokens, i + 1)

DocFreq(doc_tokens) == DocFreqFrom(<<>>, doc_tokens, 1)

RECURSIVE MaxSeq(_)
MaxSeq(seq) ==
  IF Len(seq) = 1 THEN Head(seq)
  ELSE LET m == MaxSeq(Tail(seq)) IN IF Head(seq) >= m THEN Head(seq) ELSE m

\* max(counts.values()) if counts else 1
MaxTf(counts) ==
  IF counts # <<>> THEN MaxSeq([i \in DOMAIN counts |-> counts[i][2]]) ELSE 1

TfidfDoc(counts, doc_count, df) ==
  [den   |-> MaxTf(counts) * LnScale,
   items |-> [i \in DOMAIN counts |->
                <<counts[i][1], counts[i][2] * Idf(doc_count, Lookup(df, counts[i][1], 0))>>]]

\* compute_tfidf over the counters that hold a token
compute_tfidf_nonempty(doc_tokens) ==
  LET docs      == SelectSeq(doc_tokens, LAMBDA d : d[2] # <<>>)
      doc_count == Len(docs)
      df        == DocFreq(docs)
  IN  [i \in DOMAIN docs |-> <<docs[i][1], TfidfDoc(docs[i][2], doc_count, df)>>]

compute_tfidf(doc_tokens) ==
  LET doc_count == Len(doc_tokens)
      df        == DocFreq(doc_tokens)
  IN  [i \in DOMAIN doc_tokens |->
         <<doc_tokens[i][1], TfidfDoc(doc_tokens[i][2], doc_count, df)>>]

EmptyWeights == [den |-> 1, items |-> <<>>]

(***************************************************************************)
(* cosine_similarity.  The weights of a map are read in thousandths, as    *)
(* whole numbers; the result [dot, sq_a, sq_b] stands for                  *)
(* dot / (sqrt(sq_a) * sqrt(sq_b)), kept exact                             *)
(***************************************************************************)
\* the unit of a weight held as a float
WeightScale == 1000

\* the values of a weight map as the floats the function reads
FloatItems(vec) ==
  [i \in DOMAIN vec.items |->
     <<vec.items[i][1], (vec.items[i][2] * WeightScale) \div vec.den>>]

\* sum(v * v for v in vec.values())
SumSquares(items) == SumSeq([i \in DOMAIN items |-> items[i][2] * items[i][2]])

\* sum(vec_a[k] * vec_b[k] for k in common)
DotProduct(a, b) ==
  SumSeq([i \in DOMAIN a |->
            IF a[i][1] \in Keys(b) THEN a[i][2] * Lookup(b, a[i][1], 0) ELSE 0])

\* return 0.0
ZeroSim == [dot |-> 0, sq_a |-> 1, sq_b |-> 1]

\* cosine_similarity without the test of the norms
cosine_similarity_unguarded(vec_a, vec_b) ==
  IF vec_a.items = <<>> \/ vec_b.items = <<>> THEN ZeroSim
  ELSE LET a == FloatItems(vec_a)
           b == FloatItems(vec_b)
       IN  [dot |-> DotProduct(a, b), sq_a |-> SumSquares(a), sq_b |-> SumSquares(b)]

\* cosine_similarity with the dot product over the keys of vec_a, a key that
\* vec_b lacks counted with the weight of vec_a
cosine_similarity_all_keys(vec_a, vec_b) ==
  IF vec_a.items = <<>> \/ vec_b.items = <<>> THEN ZeroSim
  ELSE LET a == FloatItems(vec_a)
           b == FloatItems(vec_b)
       IN  IF SumSquares(a) = 0 \/ SumSquares(b) = 0 THEN ZeroSim
           ELSE [dot  |-> SumSeq([i \in DOMAIN a |->
                                    a[i][2] * Lookup(b, a[i][1], a[i][2])]),
                 sq_a |-> SumSquares(a), sq_b |-> SumSquares(b)]

cosine_similarity(vec_a, vec_b) ==
  IF vec_a.items = <<>> \/ vec_b.items = <<>> THEN ZeroSim
  ELSE LET a == FloatItems(vec_a)
           b == FloatItems(vec_b)
       IN  IF SumSquares(a) = 0 \/ SumSquares(b) = 0 THEN ZeroSim
           ELSE [dot |-> DotProduct(a, b), sq_a |-> SumSquares(a), sq_b |-> SumSquares(b)]

(***************************************************************************)
(* pick_representative_message, score_messages                             *)
(*                                                                         *)
(* A score is the fraction <<sum of the numerators, len(toks)>> in units   *)
(* of 1 / weights.den.  An optional message is <<>> (None) or <<msg>>.     *)
(***************************************************************************)
\* sum(weights.get(t, 0.0) for t in toks) / len(toks)
Score(toks, weights) ==
  <<SumSeq([i \in DOMAIN toks |-> Lookup(weights.items, toks[i], 0)]), Len(toks)>>

ZeroScore == <<0, 1>>

\* PickStep that takes a message whose score equals the best so far
PickStepLastWins(st, msg, weights) ==
  LET toks == Tokenized(Normalized(msg))
  IN  IF toks = <<>> THEN st
      ELSE IF ~FracGT(st.best_score, Score(toks, weights))
        THEN [best |-> <<msg>>, best_score |-> Score(toks, weights)]
      ELSE st

\* PickStep that takes a message of score 0 when there is no best yet
PickStepFromNone(st, msg, weights) ==
  LET toks == Tokenized(Normalized(msg))
  IN  IF toks = <<>> THEN st
      ELSE IF st.best = <<>> \/ FracGT(Score(toks, weights), st.best_score)
        THEN [best |-> <<msg>>, best_score |-> Score(toks, weights)]
      ELSE st

\* PickStep that keeps the first message it takes
PickStepFirstTaken(st, msg, weights) ==
  LET toks == Tokenized(Normalized(msg))
  IN  IF toks = <<>> THEN st
      ELSE IF st.best = <<>> /\ FracGT(Score(toks, weights), st.best_score)
        THEN [best |-> <<msg>>, best_score |-> Score(toks, weights)]
      ELSE st

\* one pass of the loop of pick_representative_message, for msg; st holds best
\* and best_score
PickStep(st, msg, weights) ==
  LET toks == Tokenized(Normalized(msg))
  IN  IF toks = <<>> THEN st
      ELSE IF FracGT(Score(toks, weights), st.best_score)
        THEN [best |-> <<msg>>, best_score |-> Score(toks, weights)]
      ELSE st

\* the passes for messages[lo..hi] in order: the first half, then the rest
\* (comparing the state after the first half completes its evaluation before
\* the second half starts, which keeps the evaluation shallow)
RECURSIVE PickRange(_, _, _, _, _)
PickRange(st, messages, weights, lo, hi) ==
  IF lo > hi THEN st
  ELSE IF lo = hi THEN PickStep(st, messages[lo], weights)
  ELSE LET half == PickRange(st, messages, weights, lo, (lo + hi) \div 2)
       IN  IF half = st
             THEN PickRange(st, messages, weights, (lo + hi) \div 2 + 1, hi)
             ELSE PickRange(half, messages, weights, (lo + hi) \div 2 + 1, hi)

pick_representative_message(messages, weights) ==
  PickRange([best |-> <<>>, best_score |-> ZeroScore],
            messages, weights, 1, Len(messages)).best

MinInterestingTokens == 3

\* ScoreStep that remembers the raw message in seen, not the normalized text
ScoreStepSeenRaw(st, msg, weights) ==
  LET normalized == Normalized(msg)
      toks       == Tokenized(normalized)
  IN  IF msg \in st.seen THEN st
      ELSE IF Len(toks) < MinInterestingTokens THEN st
      ELSE IF FracGT(Score(toks, weights), ZeroScore)
        THEN [seen   |-> st.seen \cup {msg},
              scored |-> Append(st.scored, <<msg, Score(toks, weights)>>)]
      ELSE [seen |-> st.seen \cup {msg}, scored |-> st.scored]

\* one pass of the loop of score_messages, for msg; st holds seen and scored,
\* the latter as <<msg, score>> items
ScoreStep(st, msg, weights) ==
  LET normalized == Normalized(msg)
      toks       == Tokenized(normalized)
  IN  IF normalized \in st.seen THEN st
      ELSE IF Len(toks) < MinInterestingTokens THEN st
      ELSE IF FracGT(Score(toks, weights), ZeroScore)
        THEN [seen   |-> st.seen \cup {normalized},
              scored |-> Append(st.scored, <<msg, Score(toks, weights)>>)]
      ELSE [seen |-> st.seen \cup {normalized}, scored |-> st.scored]

\* the passes for messages[lo..hi] in order: the first half, then the rest
RECURSIVE ScoreRange(_, _, _, _, _)
ScoreRange(st, messages, weights, lo, hi) ==
  IF lo > hi THEN st
  ELSE IF lo = hi THEN ScoreStep(st, messages[lo], weights)
  ELSE LET half == ScoreRange(st, messages, weights, lo, (lo + hi) \div 2)
       IN  IF half = st
             THEN ScoreRange(st, messages, weights, (lo + hi) \div 2 + 1, hi)
             ELSE ScoreRange(half, messages, weights, (lo + hi) \div 2 + 1, hi)

\* score_messages without the sort
score_messages_unsorted(messages, weights, limit) ==
  Slice(ScoreRange([seen |-> {}, scored |-> <<>>],
                   messages, weights, 1, Len(messages)).scored, limit)

score_messages(messages, weights, limit) ==
  LET scored == ScoreRange([seen |-> {}, scored |-> <<>>],
                           messages, weights, 1, Len(messages)).scored
      idx    == SortedPositions([i \in DOMAIN scored |-> scored[i][2]])
  IN  Slice([j \in DOMAIN idx |-> scored[idx[j]]], limit)

(***************************************************************************)
(* main: the state of one run                                              *)
(***************************************************************************)
VARIABLES
  pc,                      \* "fold": in the loop over the rows; "payload": tfidf
                           \* and author_order computed; "output": payload_cache
                           \* built; "done": the output printed
  args,                    \* the parsed command line
  corpus,                  \* the rows read so far
  authors,
  messages_by_author,
  token_counts,
  quotes_by_author,
  raw_message_counts,
  word_lengths_by_author,
  char_lengths_by_author,
  char_count_by_author,
  link_counts_by_author,
  hours_by_author,
  opener1_by_author,
  opener2_by_author,
  closer1_by_author,
  closer2_by_author,
  tfidf,
  total_messages,
  author_order,
  payload_cache,
  call,                    \* the last direct call of a function
  output,                  \* what main prints at its end, <<>> before
  llm                      \* the state of a run of the LLM profiler

accumulators ==
  <<messages_by_author, token_counts, quotes_by_author, raw_message_counts,
    word_lengths_by_author, char_lengths_by_author, char_count_by_author,
    link_counts_by_author, hours_by_author, opener1_by_author, opener2_by_author,
    closer1_by_author, closer2_by_author>>

derived == <<tfidf, total_messages, author_order, payload_cache>>

vars == <<pc, args, corpus, authors, accumulators, derived, call, output, llm>>

USER_ID_ALIASES ==
  << <<"186665676134547461", "Aaron">>,
     <<"208425244128444418", "Brian">>,
     <<"410595870380392458", "Irfan">>,
     <<"200067001035653131", "Ryan">> >>

Aaron == "186665676134547461"

Brian == "208425244128444418"

Irfan == "410595870380392458"

Ryan == "200067001035653131"

\* the default author id of read_csv_messages, which is in no alias table
UnknownAuthor == "unknown"

\* the accumulators of main as one record
Accs ==
  [messages_by_author     |-> messages_by_author,
   token_counts           |-> token_counts,
   quotes_by_author       |-> quotes_by_author,
   raw_message_counts     |-> raw_message_counts,
   word_lengths_by_author |-> word_lengths_by_author,
   char_lengths_by_author |-> char_lengths_by_author,
   char_count_by_author   |-> char_count_by_author,
   link_counts_by_author  |-> link_counts_by_author,
   hours_by_author        |-> hours_by_author,
   opener1_by_author      |-> opener1_by_author,
   opener2_by_author      |-> opener2_by_author,
   closer1_by_author      |-> closer1_by_author,
   closer2_by_author      |-> closer2_by_author]

EmptyAccs ==
  [messages_by_author     |-> <<>>,
   token_counts           |-> <<>>,
   quotes_by_author       |-> <<>>,
   raw_message_counts     |-> <<>>,
   word_lengths_by_author |-> <<>>,
   char_lengths_by_author |-> <<>>,
   char_count_by_author   |-> <<>>,
   link_counts_by_author  |-> <<>>,
   hours_by_author        |-> <<>>,
   opener1_by_author      |-> <<>>,
   opener2_by_author      |-> <<>>,
   closer1_by_author      |-> <<>>,
   closer2_by_author      |-> <<>>]

\* " ".join(toks)
RECURSIVE JoinSpace(_)
JoinSpace(toks) ==
  IF toks = <<>> THEN <<>>
  ELSE IF Len(toks) = 1 THEN Head(toks)
  ELSE Head(toks) \o <<" ">> \o JoinSpace(Tail(toks))

\* re.search(r"https?://", text)
HasLink(text) ==
  \E i \in DOMAIN text :
    \/ StartsWithAt(text, i, <<"h","t","t","p",":","/","/">>)
    \/ StartsWithAt(text, i, <<"h","t","t","p","s",":","/","/">>)

\* what one pass of the loop body computes from msg before it updates anything
Features(msg) ==
  LET norm == normalize_content(msg.content)
  IN  [norm      |-> norm,
       toks      |-> tokenize(norm),
       all_words |-> basic_words(norm),
       stripped  |-> Strip(msg.content),
       chars     |-> Len(msg.content),
       link      |-> HasLink(msg.content),
       timestamp |-> msg.timestamp]

\* the body of the loop from raw_message_counts[author_key] += 1 on, for a
\* message that qualifies
Accumulate(A, author_key, f, min_quote_words) ==
  LET toks   == f.toks
      bump(d, k)    == Store(d, k, Lookup(d, k, 0) + 1)
      count(d, ks)  == Store(d, author_key, CounterUpdate(Lookup(d, author_key, <<>>), ks))
      first2 == IF Len(toks) >= 2 THEN <<JoinSpace(SubSeq(toks, 1, 2))>> ELSE <<>>
      last2  == IF Len(toks) >= 2
                  THEN <<JoinSpace(SubSeq(toks, Len(toks) - 1, Len(toks)))>> ELSE <<>>
      quote  == IF toks # <<>> /\ Len(toks) >= min_quote_words
                  THEN <<JoinSpace(toks)>> ELSE <<>>
  IN  [messages_by_author |->
         Store(A.messages_by_author, author_key,
               Append(Lookup(A.messages_by_author, author_key, <<>>), f.stripped)),
       token_counts |-> count(A.token_counts, toks),
       quotes_by_author |->
         IF quote # <<>> THEN count(A.quotes_by_author, quote) ELSE A.quotes_by_author,
       raw_message_counts |-> bump(A.raw_message_counts, author_key),
       word_lengths_by_author |->
         Store(A.word_lengths_by_author, author_key,
               Append(Lookup(A.word_lengths_by_author, author_key, <<>>), Len(toks))),
       char_lengths_by_author |->
         Store(A.char_lengths_by_author, author_key,
               Append(Lookup(A.char_lengths_by_author, author_key, <<>>), f.chars)),
       char_count_by_author |->
         Store(A.char_count_by_author, author_key,
               Lookup(A.char_count_by_author, author_key, 0) + f.chars),
       link_counts_by_author |->
         IF f.link THEN bump(A.link_counts_by_author, author_key)
         ELSE A.link_counts_by_author,
       hours_by_author |->
         IF f.timestamp # <<>>
           THEN count(A.hours_by_author, f.timestamp)
           ELSE A.hours_by_author,
       opener1_by_author |->
         IF toks # <<>> THEN count(A.opener1_by_author, <<toks[1]>>)
         ELSE A.opener1_by_author,
       opener2_by_author |->
         IF first2 # <<>> THEN count(A.opener2_by_author, first2)
         ELSE A.opener2_by_author,
       closer1_by_author |->
         IF toks # <<>> THEN count(A.closer1_by_author, <<toks[Len(toks)]>>)
         ELSE A.closer1_by_author,
       closer2_by_author |->
         IF last2 # <<>> THEN count(A.closer2_by_author, last2)
         ELSE A.closer2_by_author]

\* Skipped that looks at the lexical tokens alone
SkippedWithoutTokens(f) == f.toks = <<>>

\* if not toks and not all_words: continue
Skipped(f) == f.toks = <<>> /\ f.all_words = <<>>

\* LoopBody that counts the message before it looks whether it qualifies
LoopBodyCountFirst(A, author_key, f, min_quote_words) ==
  IF Skipped(f)
    THEN [A EXCEPT !.raw_message_counts =
            Store(@, author_key, Lookup(@, author_key, 0) + 1)]
    ELSE Accumulate(A, author_key, f, min_quote_words)

\* LoopBody with one char count for all authors
LoopBodyShared(A, author_key, f, min_quote_words) ==
  IF Skipped(f) THEN A
  ELSE LET B == Accumulate(A, author_key, f, min_quote_words)
       IN  [B EXCEPT !.char_count_by_author =
              [i \in DOMAIN @ |->
                 IF @[i][1] = author_key THEN @[i] ELSE <<@[i][1], @[i][2] + f.chars>>]]

\* LoopBody that leaves the closer bigrams out
LoopBodyNoCloser2(A, author_key, f, min_quote_words) ==
  IF Skipped(f) THEN A
  ELSE [Accumulate(A, author_key, f, min_quote_words)
          EXCEPT !.closer2_by_author = A.closer2_by_author]

\* the accumulators after one pass of the loop body for a message with features f
LoopBody(A, author_key, f, min_quote_words) ==
  IF Skipped(f) THEN A ELSE Accumulate(A, author_key, f, min_quote_words)

\* the accumulators after n passes of the loop body, for n equal rows: the
\* first half of the passes, then the rest (a half that changes nothing is one
\* of skipped rows: so are the passes after it)
RECURSIVE LoopBodyTimes(_, _, _, _, _)
LoopBodyTimes(A, author_key, f, min_quote_words, n) ==
  IF n = 0 THEN A
  ELSE IF n = 1 THEN LoopBody(A, author_key, f, min_quote_words)
  ELSE LET B == LoopBodyTimes(A, author_key, f, min_quote_words, n \div 2)
       IN  IF B = A THEN A
           ELSE LoopBodyTimes(B, author_key, f, min_quote_words, n - (n \div 2))

(***************************************************************************)
(* The rows a run may read.  A row is a Message that read_csv_messages     *)
(* yields: its content is not empty; its timestamp is <<>> (None) or       *)
(* <<hour>>.                                                               *)
(***************************************************************************)
\* the least number of messages of an author that gets a style card
MinMessages == 100

\* the rows of the CSV files: copies equal rows follow one another
Rows ==
  { [author_id |-> Aaron, content |-> TextGG, timestamp |-> <<21>>, copies |-> 1],
    [author_id |-> Aaron, content |-> TextNice, timestamp |-> <<>>, copies |-> 1],
    [author_id |-> Aaron, content |-> TextGGUrl, timestamp |-> <<9>>,
     copies |-> MinMessages],
    [author_id |-> Aaron, content |-> TextUrl, timestamp |-> <<9>>, copies |-> 1],
    [author_id |-> Brian, content |-> TextGGWP, timestamp |-> <<21>>,
     copies |-> MinMessages],
    [author_id |-> Brian, content |-> TextWords, timestamp |-> <<>>, copies |-> 1],
    [author_id |-> Irfan, content |-> TextNine, timestamp |-> <<>>,
     copies |-> MinMessages],
    [author_id |-> UnknownAuthor, content |-> TextGG, timestamp |-> <<>>, copies |-> 1] }

\* the rows of the files of a second run, one of them a message of one token
TopRows ==
  { [author_id |-> Aaron, content |-> TextGGUrl, timestamp |-> <<9>>,
     copies |-> MinMessages],
    [author_id |-> Aaron, content |-> TextUrl, timestamp |-> <<9>>, copies |-> 1],
    [author_id |-> Brian, content |-> TextGGWP, timestamp |-> <<21>>,
     copies |-> MinMessages],
    [author_id |-> Brian, content |-> TextWords, timestamp |-> <<>>, copies |-> 1],
    [author_id |-> Irfan, content |-> TextNine, timestamp |-> <<>>,
     copies |-> MinMessages],
    [author_id |-> Ryan, content |-> TextOne, timestamp |-> <<>>, copies |-> 1],
    [author_id |-> UnknownAuthor, content |-> TextGG, timestamp |-> <<>>, copies |-> 1] }

\* the rows of one run
MaxRows == 3

ArgsChoices ==
  { [min_quote_words |-> 2, quotes_per_user |-> 20, top |-> 8, format |-> "text"],
    [min_quote_words |-> 3, quotes_per_user |-> 1, top |-> 1, format |-> "json"] }

\* command lines with --top 1 and with --top -1, which argparse takes as the
\* int -1
TopChoices ==
  { [min_quote_words |-> 3, quotes_per_user |-> 1, top |-> 1, format |-> "json"],
    [min_quote_words |-> 2, quotes_per_user |-> 20, top |-> -1, format |-> "json"] }

NoCall == [fn |-> "none", messages |-> <<>>, weights |-> EmptyWeights,
           limit |-> 0, result |-> <<>>]

\* the LLM profiler before main is entered
NoLlm == [pc |-> "start"]

\* the state of main before the loop over the files, the command line being
\* one of choices
Start(choices) ==
  /\ pc = "fold"
  /\ args \in choices
  /\ corpus = <<>>
  /\ authors = <<>>
  /\ messages_by_author = <<>>
  /\ token_counts = <<>>
  /\ quotes_by_author = <<>>
  /\ raw_message_counts = <<>>
  /\ word_lengths_by_author = <<>>
  /\ char_lengths_by_author = <<>>
  /\ char_count_by_author = <<>>
  /\ link_counts_by_author = <<>>
  /\ hours_by_author = <<>>
  /\ opener1_by_author = <<>>
  /\ opener2_by_author = <<>>
  /\ closer1_by_author = <<>>
  /\ closer2_by_author = <<>>
  /\ tfidf = <<>>
  /\ total_messages = 0
  /\ author_order = <<>>
  /\ payload_cache = <<>>
  /\ call = NoCall
  /\ output = <<>>
  /\ llm = NoLlm

Init == Start(ArgsChoices)

\* resolve_author_name for an author id of the alias table
resolve_author_name(author_id) == Lookup(USER_ID_ALIASES, author_id, "Unknown")

SetAccs(A) ==
  /\ messages_by_author' = A.messages_by_author
  /\ token_counts' = A.token_counts
  /\ quotes_by_author' = A.quotes_by_author
  /\ raw_message_counts' = A.raw_message_counts
  /\ word_lengths_by_author' = A.word_lengths_by_author
  /\ char_lengths_by_author' = A.char_lengths_by_author
  /\ char_count_by_author' = A.char_count_by_author
  /\ link_counts_by_author' = A.link_counts_by_author
  /\ hours_by_author' = A.hours_by_author
  /\ opener1_by_author' = A.opener1_by_author
  /\ opener2_by_author' = A.opener2_by_author
  /\ closer1_by_author' = A.closer1_by_author
  /\ closer2_by_author' = A.closer2_by_author

\* FoldRows with the name stored after the test for a qualifying message
FoldRowsNamedAfterCheck(msg) ==
  /\ pc = "fold"
  /\ Len(corpus) < MaxRows
  /\ corpus' = Append(corpus, msg)
  /\ IF USER_ID_ALIASES # <<>> /\ msg.author_id \notin Keys(USER_ID_ALIASES)
       THEN UNCHANGED <<authors, accumulators>>
       ELSE /\ authors' = IF Skipped(Features(msg)) THEN authors
                           ELSE Store(authors, msg.author_id,
                                      resolve_author_name(msg.author_id))
            /\ SetAccs(LoopBodyTimes(Accs, msg.author_id, Features(msg),
                                     args.min_quote_words, msg.copies))
  /\ UNCHANGED <<pc, args, derived, call, output, llm>>

\* the passes of the loop over the rows for the copies of the row msg
FoldRows(msg) ==
  /\ pc = "fold"
  /\ Len(corpus) < MaxRows
  /\ corpus' = Append(corpus, msg)
  /\ IF USER_ID_ALIASES # <<>> /\ msg.author_id \notin Keys(USER_ID_ALIASES)
       THEN UNCHANGED <<authors, accumulators>>
       ELSE /\ authors' = Store(authors, msg.author_id, resolve_author_name(msg.author_id))
            /\ SetAccs(LoopBodyTimes(Accs, msg.author_id, Features(msg),
                                     args.min_quote_words, msg.copies))
  /\ UNCHANGED <<pc, args, derived, call, output, llm>>

\* AuthorOrder without the test of the message count
AuthorOrderAll(weights, counts, messages) ==
  LET cand == KeySeq(weights)
      idx  == SortedPositions([i \in DOMAIN cand |-> <<Len(Lookup(messages, cand[i], <<>>)), 1>>])
  IN  [j \in DOMAIN idx |-> cand[idx[j]]]

\* author_order of main
AuthorOrder(weights, counts, messages) ==
  LET cand == SelectSeq(KeySeq(weights), LAMBDA aid : Lookup(counts, aid, 0) >= MinMessages)
      idx  == SortedPositions([i \in DOMAIN cand |-> <<Len(Lookup(messages, cand[i], <<>>)), 1>>])
  IN  [j \in DOMAIN idx |-> cand[idx[j]]]

\* ComputeTfidf as a step inside the loop over the rows
ComputeTfidfInLoop ==
  /\ pc = "fold"
  /\ tfidf = <<>>
  /\ token_counts # <<>>
  /\ tfidf' = compute_tfidf(token_counts)
  /\ UNCHANGED <<pc, args, corpus, authors, accumulators, total_messages,
                 author_order, payload_cache, call, output, llm>>

\* the end of the loop: tfidf, total_messages and author_order
ComputeTfidf ==
  /\ pc = "fold"
  /\ pc' = "payload"
  /\ tfidf' = compute_tfidf(token_counts)
  /\ total_messages' =
       SumSeq([i \in DOMAIN messages_by_author |-> Len(messages_by_author[i][2])])
  /\ author_order' =
       AuthorOrder(compute_tfidf(token_counts), raw_message_counts, messages_by_author)
  /\ UNCHANGED <<args, corpus, authors, accumulators, payload_cache, call, output, llm>>

\* top_items(quotes_by_author[aid], args.quotes_per_user)
QuotesOf(aid) == top_items(Lookup(quotes_by_author, aid, <<>>), args.quotes_per_user)

author_payload(aid) ==
  LET vec  == Lookup(tfidf, aid, EmptyWeights)
      msgs == Lookup(messages_by_author, aid, <<>>)
  IN  [author       |-> Lookup(authors, aid, aid),
       author_id    |-> aid,
       messages     |-> Lookup(raw_message_counts, aid, 0),
       top_tokens   |-> top_items(vec.items, 8),
       openers1     |-> top_items(Lookup(opener1_by_author, aid, <<>>), 5),
       openers2     |-> top_items(Lookup(opener2_by_author, aid, <<>>), 5),
       closers1     |-> top_items(Lookup(closer1_by_author, aid, <<>>), 5),
       closers2     |-> top_items(Lookup(closer2_by_author, aid, <<>>), 5),
       hour_peaks   |-> KeySeq(top_items(Lookup(hours_by_author, aid, <<>>), 3)),
       representative       |-> pick_representative_message(msgs, vec),
       interesting_messages |-> score_messages(msgs, vec, 20),
       quotes       |-> QuotesOf(aid)]

\* payload_cache = {aid: author_payload(aid) for aid in author_order}
BuildPayloads ==
  /\ pc = "payload"
  /\ pc' = "output"
  /\ payload_cache' = [i \in DOMAIN author_order |->
                         <<author_order[i], author_payload(author_order[i])>>]
  /\ UNCHANGED <<args, corpus, authors, accumulators, tfidf, total_messages,
                 author_order, call, output, llm>>

\* the largest r with r * r <= x, between lo and hi
RECURSIVE IsqrtRange(_, _, _)
IsqrtRange(x, lo, hi) ==
  IF lo >= hi THEN lo
  ELSE LET mid == (lo + hi + 1) \div 2
       IN  IF mid <= x \div mid THEN IsqrtRange(x, mid, hi)
           ELSE IsqrtRange(x, lo, mid - 1)

\* math.sqrt, to a whole number of thousandths
Isqrt(x) == IsqrtRange(x, 0, x)

\* the float a result of cosine_similarity stands for, in thousandths
SimMilli(r) ==
  IF r.dot = 0 THEN 0
  ELSE ((r.dot \div Isqrt(r.sq_a)) * WeightScale) \div Isqrt(r.sq_b)

\* the author ids in the order of str
IdOrder == <<Aaron, Ryan, Brian, Irfan>>

IdRank(aid) == CHOOSE i \in DOMAIN IdOrder : IdOrder[i] = aid

\* the number of neighbours printed for an author
NearestCount == 3

\* Nearest cut to one neighbour
NearestOne(aid) ==
  LET others == SelectSeq(author_order, LAMBDA bid : bid # aid)
      sims   == [i \in DOMAIN others |->
                   SimMilli(cosine_similarity(Lookup(tfidf, aid, EmptyWeights),
                                              Lookup(tfidf, others[i], EmptyWeights)))]
      idx    == SortedPositions([i \in DOMAIN others |->
                   <<sims[i] * (Len(IdOrder) + 1) + IdRank(others[i]), 1>>])
  IN  Slice([j \in DOMAIN idx |->
               <<Lookup(authors, others[idx[j]], others[idx[j]]), sims[idx[j]]>>],
            1)

\* Nearest without the test bid != aid
NearestWithSelf(aid) ==
  LET sims   == [i \in DOMAIN author_order |->
                   SimMilli(cosine_similarity(Lookup(tfidf, aid, EmptyWeights),
                                              Lookup(tfidf, author_order[i], EmptyWeights)))]
      idx    == SortedPositions([i \in DOMAIN author_order |->
                   <<sims[i] * (Len(IdOrder) + 1) + IdRank(author_order[i]), 1>>])
  IN  Slice([j \in DOMAIN idx |->
               <<Lookup(authors, author_order[idx[j]], author_order[idx[j]]), sims[idx[j]]>>],
            NearestCount)

\* Nearest with the candidates taken from author_order[: args.top]
NearestReported(aid) ==
  LET others == SelectSeq(Slice(author_order, args.top), LAMBDA bid : bid # aid)
      sims   == [i \in DOMAIN others |->
                   SimMilli(cosine_similarity(Lookup(tfidf, aid, EmptyWeights),
                                              Lookup(tfidf, others[i], EmptyWeights)))]
      idx    == SortedPositions([i \in DOMAIN others |->
                   <<sims[i] * (Len(IdOrder) + 1) + IdRank(others[i]), 1>>])
  IN  Slice([j \in DOMAIN idx |->
               <<Lookup(authors, others[idx[j]], others[idx[j]]), sims[idx[j]]>>],
            NearestCount)

\* the (sim, bid) pairs of the other authors of author_order, sorted with
\* reverse=True and cut to three, each printed as (name, sim)
Nearest(aid) ==
  LET others == SelectSeq(author_order, LAMBDA bid : bid # aid)
      sims   == [i \in DOMAIN others |->
                   SimMilli(cosine_similarity(Lookup(tfidf, aid, EmptyWeights),
                                              Lookup(tfidf, others[i], EmptyWeights)))]
      idx    == SortedPositions([i \in DOMAIN others |->
                   <<sims[i] * (Len(IdOrder) + 1) + IdRank(others[i]), 1>>])
  IN  Slice([j \in DOMAIN idx |->
               <<Lookup(authors, others[idx[j]], others[idx[j]]), sims[idx[j]]>>],
            NearestCount)

\* the JSON document or the text main prints: the summary, the style cards
\* of author_order[: args.top] and their nearest neighbours
Output ==
  /\ pc = "output"
  /\ pc' = "done"
  /\ output' =
       LET shown == Slice(author_order, args.top)
       IN  [format    |-> args.format,
            summary   |-> [messages |-> total_messages, authors |-> Len(authors)],
            authors   |-> [i \in DOMAIN shown |-> Lookup(payload_cache, shown[i], <<>>)],
            neighbors |-> [i \in DOMAIN shown |->
                             [author  |-> Lookup(authors, shown[i], shown[i]),
                              nearest |-> Nearest(shown[i])]]]
  /\ UNCHANGED <<args, corpus, authors, accumulators, derived, call, llm>>

Next ==
  \/ \E msg \in Rows : FoldRows(msg)
  \/ ComputeTfidf
  \/ BuildPayloads
  \/ Output

Spec == Init /\ [][Next]_vars

\* main run on the second rows, with --top 1 or --top -1
TopInit == Start(TopChoices)

TopNext ==
  \/ \E msg \in TopRows : FoldRows(msg)
  \/ ComputeTfidf
  \/ BuildPayloads
  \/ Output

TopSpec == TopInit /\ [][TopNext]_vars

(***************************************************************************)
(* Direct calls of pick_representative_message and score_messages, on      *)
(* message lists and weight maps that no run of main need produce; a       *)
(* behaviour makes one call, the functions keeping nothing between calls   *)
(***************************************************************************)
CallTexts == {TextGG, TextGGLink, TextNice, TextWPGG, TextGGWP, TextWords}

TokGG == <<"g","g">>

TokWP == <<"w","p">>

TokNice == <<"n","i","c","e">>

CallWeights ==
  { EmptyWeights,
    [den |-> 2, items |-> << <<TokGG, 2>>, <<TokNice, 3>> >>],
    [den |-> 1, items |-> << <<TokWP, 3>>, <<TokGG, 0>>, <<TokNice, 8>> >>] }

\* the longest message list of a call
MaxCallMessages == 3

\* the largest limit of a call
MaxCallLimit == 2

CallMessages == UNION {[1..n -> CallTexts] : n \in 0..MaxCallMessages}

CallPick(messages, weights) ==
  /\ call.fn = "none"
  /\ call' = [fn |-> "pick", messages |-> messages, weights |-> weights,
              limit |-> 0, result |-> pick_representative_message(messages, weights)]
  /\ UNCHANGED <<pc, args, corpus, authors, accumulators, derived, output, llm>>

CallScore(messages, weights, limit) ==
  /\ call.fn = "none"
  /\ call' = [fn |-> "score", messages |-> messages, weights |-> weights,
              limit |-> limit, result |-> score_messages(messages, weights, limit)]
  /\ UNCHANGED <<pc, args, corpus, authors, accumulators, derived, output, llm>>

\* score_messages and pick_representative_message, called on the same
\* message list and weight map
CallBoth(messages, weights, limit) ==
  /\ call.fn = "none"
  /\ call' = [fn |-> "both", messages |-> messages, weights |-> weights,
              limit |-> limit, result |-> score_messages(messages, weights, limit),
              picked |-> pick_representative_message(messages, weights)]
  /\ UNCHANGED <<pc, args, corpus, authors, accumulators, derived, output, llm>>

CallNext ==
  \/ /\ call.fn = "none"
     /\ \E messages \in CallMessages, weights \in CallWeights :
          CallPick(messages, weights)
  \/ /\ call.fn = "none"
     /\ \E messages \in CallMessages, weights \in CallWeights, limit \in 0..MaxCallLimit :
          CallScore(messages, weights, limit)
  \/ /\ call.fn = "none"
     /\ \E messages \in CallMessages, weights \in CallWeights, limit \in 0..MaxCallLimit :
          CallBoth(messages, weights, limit)

\* the functions read nothing of main's state: the command line is the default
CallInit ==
  Init /\ args = [min_quote_words |-> 2, quotes_per_user |-> 20, top |-> 8, format |-> "text"]

CallSpec == CallInit /\ [][CallNext]_vars

(***************************************************************************)
(* Direct calls of percentile, cosine_similarity, normalize_content and    *)
(* tokenize, one call a behaviour                                          *)
(***************************************************************************)
\* the longest list of a call of percentile
MaxData == 4

DataValues == {1, 2, 3, 4}

CallData == UNION {[1..n -> DataValues] : n \in 0..MaxData}

\* pct between 0 and 1
CallPcts == {<<0, 1>>, <<1, 3>>, <<1, 2>>, <<9, 10>>, <<1, 1>>}

CallPercentile(data, pct) ==
  /\ call.fn = "none"
  /\ call' = [fn |-> "percentile", data |-> data, pct |-> pct,
              result |-> percentile(data, pct)]
  /\ UNCHANGED <<pc, args, corpus, authors, accumulators, derived, output, llm>>

CosWeights ==
  { EmptyWeights,
    [den |-> 1, items |-> << <<TokGG, 1>> >>],
    [den |-> 1, items |-> << <<TokGG, 0>> >>],
    [den |-> 1, items |-> << <<TokGG, 0>>, <<TokWP, 0>> >>],
    [den |-> 1, items |-> << <<TokGG, 1>>, <<TokWP, 1>> >>],
    [den |-> 1, items |-> << <<TokWP, 2>>, <<TokNice, 1>> >>],
    [den |-> 2, items |-> << <<TokNice, 1>>, <<TokGG, 3>> >>],
    [den |-> 2, items |-> << <<TokNice, 2>>, <<TokWP, 0>> >>] }

\* a call of cosine_similarity and the call with the arguments exchanged
CallCosine(vec_a, vec_b) ==
  /\ call.fn = "none"
  /\ call' = [fn |-> "cosine", vec_a |-> vec_a, vec_b |-> vec_b,
              result  |-> cosine_similarity(vec_a, vec_b),
              swapped |-> cosine_similarity(vec_b, vec_a)]
  /\ UNCHANGED <<pc, args, corpus, authors, accumulators, derived, output, llm>>

\* the most pieces a text of a call is put together from
MaxPieces == 3

RECURSIVE Flatten(_)
Flatten(pieces) ==
  IF pieces = <<>> THEN <<>> ELSE Head(pieces) \o Flatten(Tail(pieces))

\* the texts put together from at most MaxPieces pieces of pool
TextsOf(pool) == {Flatten(s) : s \in UNION {[1..n -> pool] : n \in 0..MaxPieces}}

\* pieces of URLs, of text around them, whitespace and the zero-width space
UrlPieces ==
  { <<"h","t","t","p",":","/","/">>, <<"h","t","t","p","s",":","/","/">>,
    <<"h","t","t">>, <<"p",":","/","/">>, <<"x">>, <<" ">>, <<"\n">>, <<"ZWSP">> }

\* text -> normalize_content(text), and the result normalized again
CallNormalize(text) ==
  /\ call.fn = "none"
  /\ call' = [fn |-> "normalize", text |-> text,
              result |-> normalize_content(text),
              twice  |-> normalize_content(normalize_content(text))]
  /\ UNCHANGED <<pc, args, corpus, authors, accumulators, derived, output, llm>>

\* thirty characters of one run: the longest token
Run30 == LowerSeq \o <<"0","1","2","3">>

\* pieces of tokens: short and long runs, digits, the noise token, separators
TokenPieces ==
  { <<"a">>, <<"g","g">>, <<"1","2","3","4">>, <<"5">>,
    <<"m","i","s","s","i","n","g">>, <<"M","i","s","s","i","n","g">>,
    <<"'">>, <<" ">>, <<"-">>, Run30 }

CallTokenize(text) ==
  /\ call.fn = "none"
  /\ call' = [fn |-> "tokenize", text |-> text, result |-> tokenize(text)]
  /\ UNCHANGED <<pc, args, corpus, authors, accumulators, derived, output, llm>>

FnNext ==
  \/ \E data \in CallData, pct \in CallPcts : CallPercentile(data, pct)
  \/ \E vec_a \in CosWeights, vec_b \in CosWeights : CallCosine(vec_a, vec_b)
  \/ \E text \in TextsOf(UrlPieces) : CallNormalize(text)
  \/ \E text \in TextsOf(TokenPieces) : CallTokenize(text)

FnSpec == CallInit /\ [][FnNext]_vars

(***************************************************************************)
(* ai_analyze_llm.py: the LLM profiler.  Token counts are in thousands of  *)
(* tokens and prices in 0.05 millionths of a dollar a token, so that a     *)
(* cost is in units of 50 millionths of a dollar: 0.15/1_000_000 dollars a *)
(* token is 3, and a budget of 5 dollars is 100000.                        *)
(***************************************************************************)
INPUT_PRICE_PER_TOKEN == 3

OUTPUT_PRICE_PER_TOKEN == 12

ProdInputPrice == 25

ProdOutputPrice == 200

\* --temperature, default, in tenths
DefaultTemperature == 3

ProdTemperature == 10

MODE_CONFIGS ==
  [test |-> [model |-> "gpt-4o-mini", input_price |-> INPUT_PRICE_PER_TOKEN,
             output_price |-> OUTPUT_PRICE_PER_TOKEN,
             temperature |-> DefaultTemperature],
   prod |-> [model |-> "gpt-5.1", input_price |-> ProdInputPrice,
             output_price |-> ProdOutputPrice,
             temperature |-> ProdTemperature]]

Gpt4oMiniLimit == 128

Gpt51Limit == 400

O1Limit == 200

\* MODEL_CONTEXT_LIMITS.get(model, 128_000), for the models of the model
ModelLimit(model) ==
  IF model = "gpt-5.1" THEN Gpt51Limit
  ELSE IF model = "o1" THEN O1Limit
  ELSE Gpt4oMiniLimit

\* --max-output-tokens, default
DefaultMaxOutputTokens == 9

\* --budget, default
DefaultBudget == 100000

\* x or y, on numbers
OrElse(x, y) == IF x # 0 THEN x ELSE y

estimate_cost(input_tokens, output_tokens, a) ==
  LET in_price  == OrElse(a.input_price, INPUT_PRICE_PER_TOKEN)
      out_price == OrElse(a.output_price, OUTPUT_PRICE_PER_TOKEN)
  IN  (input_tokens * in_price) + (output_tokens * out_price)

\* the comparison with its operands exchanged
OverBudgetSwapped(planned_cost, budget) == budget > planned_cost

\* if planned_cost > args.budget
OverBudget(planned_cost, budget) == planned_cost > budget

\* the most authors pick_authors returns in the model
MaxAuthors == 2

\* input_tokens of an author's prompt: below every limit, at the default cap
\* of the corpus plus the prompt, above the limit of gpt-4o-mini, above the
\* limit of gpt-5.1
InputTokenValues == {60, 116, 130, 401}

LlmAuthors == UNION {[1..n -> InputTokenValues] : n \in 0..MaxAuthors}

\* an option that the command line does not give, and one it gives as v
NotGiven == <<>>

Given(v) == <<v>>

\* args.model before the mode's model is taken
None == "None"

\* --model: not given, or a model of another family
LlmModels == {NotGiven, Given("o1")}

\* --input-price: not given, the default given, zero, another price
LlmInputPrices == {NotGiven, Given(INPUT_PRICE_PER_TOKEN), Given(0), Given(10)}

\* --output-price: not given, the default given
LlmOutputPrices == {NotGiven, Given(OUTPUT_PRICE_PER_TOKEN)}

\* --temperature: not given, the default given, another temperature
LlmTemperatures == {NotGiven, Given(DefaultTemperature), Given(7)}

\* --budget: the default, the cost of one default request in test mode, less
LlmBudgets == {DefaultBudget, 456, 400}

\* the command lines of the model
LlmCommandLines ==
  [mode : {"test", "prod"}, model : LlmModels, input_price : LlmInputPrices,
   output_price : LlmOutputPrices, temperature : LlmTemperatures,
   budget : LlmBudgets, dry_run : BOOLEAN]

\* parser.parse_args(): an option that is not given has its default
ParseArgs(cli) ==
  LET or_default(v, d) == IF v = NotGiven THEN d ELSE v[1]
  IN  [mode |-> cli.mode,
       model |-> or_default(cli.model, None),
       input_price |-> or_default(cli.input_price, INPUT_PRICE_PER_TOKEN),
       output_price |-> or_default(cli.output_price, OUTPUT_PRICE_PER_TOKEN),
       temperature |-> or_default(cli.temperature, DefaultTemperature),
       max_output_tokens |-> DefaultMaxOutputTokens,
       budget |-> cli.budget,
       dry_run |-> cli.dry_run]

\* the command line after the mode defaults are applied
LlmArgs(cli) ==
  LET a == ParseArgs(cli)
      mode_config == MODE_CONFIGS[a.mode]
  IN  [a EXCEPT
         !.model = IF @ = None THEN mode_config.model ELSE @,
         !.input_price = IF @ = INPUT_PRICE_PER_TOKEN THEN mode_config.input_price ELSE @,
         !.output_price = IF @ = OUTPUT_PRICE_PER_TOKEN THEN mode_config.output_price ELSE @,
         !.temperature = IF @ = DefaultTemperature THEN mode_config.temperature ELSE @]

\* no request was made
NoParams == [model |-> None, temperature |-> NotGiven]

\* main up to the planning loop: the arguments, the API key, the authors.
\* authors holds input_tokens for each author pick_authors returned
LlmStart(cli, api_key, tokens) ==
  /\ llm.pc = "start"
  /\ llm' = [pc |-> IF ~api_key \/ tokens = <<>> THEN "exit" ELSE "plan",
             cli |-> cli,
             args |-> LlmArgs(cli),
             authors |-> tokens,
             model_limit |-> ModelLimit(LlmArgs(cli).model),
             i |-> 1,
             planned_cost |-> 0,
             requests |-> <<>>,
             sent |-> <<>>,
             failed |-> <<>>,
             api_params |-> NoParams]
  /\ UNCHANGED <<pc, args, corpus, authors, accumulators, derived, call, output>>

\* one turn of the planning loop: the author is skipped, or its request is
\* planned and its cost added
LlmPlan ==
  /\ llm.pc = "plan"
  /\ LET input_tokens == llm.authors[llm.i]
         est_cost == estimate_cost(input_tokens, llm.args.max_output_tokens, llm.args)
         after == IF llm.i = Len(llm.authors) THEN "check" ELSE "plan"
     IN  llm' = IF input_tokens > llm.model_limit
                  THEN [llm EXCEPT !.i = @ + 1, !.pc = after]
                  ELSE [llm EXCEPT !.i = @ + 1, !.pc = after,
                                   !.planned_cost = @ + est_cost,
                                   !.requests = Append(@, llm.i)]
  /\ UNCHANGED <<pc, args, corpus, authors, accumulators, derived, call, output>>

\* after the loop: SystemExit over budget, return on --dry-run, else the
\* client is made and the requests are sent in turn
LlmCheckBudget ==
  /\ llm.pc = "check"
  /\ llm' = [llm EXCEPT
               !.i = 1,
               !.pc = IF OverBudget(llm.planned_cost, llm.args.budget) THEN "aborted"
                      ELSE IF llm.args.dry_run THEN "dry_run"
                      ELSE IF llm.requests = <<>> THEN "done"
                      ELSE "send"]
  /\ UNCHANGED <<pc, args, corpus, authors, accumulators, derived, call, output>>

\* args.model.startswith("o1")
is_o1_model(model) == model = "o1"

\* one turn of the sending loop: the parameters of the request are built, with
\* no temperature for an o1 model, and client.chat.completions.create returns
\* or raises
LlmSend(ok) ==
  /\ llm.pc = "send"
  /\ llm' = [llm EXCEPT
               !.api_params =
                 [model |-> llm.args.model,
                  temperature |-> IF ~is_o1_model(llm.args.model)
                                    THEN Given(llm.args.temperature) ELSE NotGiven],
               !.i = @ + 1,
               !.pc = IF llm.i = Len(llm.requests) THEN "done" ELSE "send",
               !.sent = Append(@, llm.requests[llm.i]),
               !.failed = IF ok THEN @ ELSE Append(@, llm.requests[llm.i])]
  /\ UNCHANGED <<pc, args, corpus, authors, accumulators, derived, call, output>>

LlmNext ==
  \/ /\ llm.pc = "start"
     /\ \E cli \in LlmCommandLines, api_key \in BOOLEAN, tokens \in LlmAuthors :
          LlmStart(cli, api_key, tokens)
  \/ LlmPlan
  \/ LlmCheckBudget
  \/ \E ok \in BOOLEAN : LlmSend(ok)

LlmSpec == CallInit /\ [][LlmNext]_vars

(***************************************************************************)
(* truncate_corpus of ai_analyze_llm.py, called directly.  A line is a     *)
(* text; the encoding is a table of the number of tokens of each line.     *)
(***************************************************************************)
LineNone == <<>>

LineOk == <<"o","k">>

LineGGWP == <<"g","g"," ","w","p">>

LineNiceGame == <<"n","i","c","e"," ","g","a","m","e"," ","a","l","l">>

CorpusLines == {LineNone, LineOk, LineGGWP, LineNiceGame}

\* len(encoding.encode(text)) for the lines of the model
count_tokens(text) ==
  IF text = LineNone THEN 0
  ELSE IF text = LineOk THEN 1
  ELSE IF text = LineGGWP THEN 2
  ELSE 3

\* list.reverse()
ReverseSeq(seq) == [i \in DOMAIN seq |-> seq[Len(seq) + 1 - i]]

\* the loop over reversed(lines) from lines[i] down: kept and tokens_used at
\* its end
RECURSIVE TruncateLoop(_, _, _, _, _)
TruncateLoop(lines, i, kept, tokens_used, max_tokens) ==
  IF i = 0 THEN [kept |-> kept, tokens_used |-> tokens_used]
  ELSE LET line_tokens == count_tokens(lines[i])
       IN  IF tokens_used + line_tokens > max_tokens
             THEN [kept |-> kept, tokens_used |-> tokens_used]
             ELSE TruncateLoop(lines, i - 1, Append(kept, lines[i]),
                               tokens_used + line_tokens, max_tokens)

\* truncate_corpus without kept.reverse()
truncate_corpus_unreversed(lines, max_tokens) ==
  TruncateLoop(lines, Len(lines), <<>>, 0, max_tokens)

truncate_corpus(lines, max_tokens) ==
  LET r == TruncateLoop(lines, Len(lines), <<>>, 0, max_tokens)
  IN  [kept |-> ReverseSeq(r.kept), tokens_used |-> r.tokens_used]

\* the most lines of a call
MaxLines == 3

\* max_tokens of a call: an int, --max-input-tokens in main
MaxTokensChoices == -1..7

CallTruncate(lines, max_tokens) ==
  /\ call.fn = "none"
  /\ call' = [fn |-> "truncate", lines |-> lines, max_tokens |-> max_tokens,
              result |-> truncate_corpus(lines, max_tokens)]
  /\ UNCHANGED <<pc, args, corpus, authors, accumulators, derived, output, llm>>

TruncNext ==
  /\ call.fn = "none"
  /\ \E lines \in UNION {[1..n -> CorpusLines] : n \in 0..MaxLines},
       max_tokens \in MaxTokensChoices :
       CallTruncate(lines, max_tokens)

TruncSpec == CallInit /\ [][TruncNext]_vars

(***************************************************************************)
(* What the claims speak of                                                *)
(***************************************************************************)
AuthorIds == {r.author_id : r \in Rows \cup TopRows}

\* msg yields no lexical token and no surface word after normalization
NonQualifying(content) ==
  /\ tokenize(normalize_content(content)) = <<>>
  /\ basic_words(normalize_content(content)) = <<>>

\* the number of qualifying messages of author a among rows[1..n]
RECURSIVE QualifyingRead(_, _, _)
QualifyingRead(rows, n, a) ==
  IF n = 0 THEN 0
  ELSE QualifyingRead(rows, n - 1, a)
       + (IF rows[n].author_id = a /\ a \in Keys(USER_ID_ALIASES)
             /\ ~NonQualifying(rows[n].content)
            THEN rows[n].copies ELSE 0)

LastRow == corpus[Len(corpus)]

\* C1: a pass of the loop for a message that yields no lexical token and no
\* surface word after normalization leaves every accumulator as it was.
C1_NonQualifyingLeavesAccumulators ==
  [][(Len(corpus') = Len(corpus) + 1 /\ NonQualifying(corpus'[Len(corpus')].content))
       => UNCHANGED accumulators]_vars

\* a message that is only a URL was read for an author who has messages
C1_Witness ==
  /\ Len(corpus) >= 2
  /\ LastRow.content = TextUrl
  /\ Lookup(raw_message_counts, LastRow.author_id, 0) > 0

\* C2: for every author the message count, the lengths of the message list, of
\* the word-length list and of the char-length list all equal the number of
\* qualifying messages read for the author, and the char count is the sum of
\* the char-length list.
C2_CountsAgree ==
  \A a \in AuthorIds :
    LET n == QualifyingRead(corpus, Len(corpus), a)
    IN  /\ Lookup(raw_message_counts, a, 0) = n
        /\ Len(Lookup(messages_by_author, a, <<>>)) = n
        /\ Len(Lookup(word_lengths_by_author, a, <<>>)) = n
        /\ Len(Lookup(char_lengths_by_author, a, <<>>)) = n
        /\ Lookup(char_count_by_author, a, 0)
             = SumSeq(Lookup(char_lengths_by_author, a, <<>>))

\* an author has read qualifying and non-qualifying messages, one of them
\* with surface words and no token
C2_Witness ==
  /\ Len(corpus) = 3
  /\ \E i \in DOMAIN corpus : corpus[i].content = TextWords
  /\ Lookup(raw_message_counts, Brian, 0) = MinMessages + 1
  /\ Lookup(char_count_by_author, Brian, 0) > MinMessages

DocsWith(token) ==
  {a \in Keys(token_counts) : token \in Keys(Lookup(token_counts, a, <<>>))}

\* the largest count of a counter, 1 for an empty counter
LargestCount(counts) ==
  IF counts = <<>> THEN 1
  ELSE CHOOSE m \in {counts[i][2] : i \in DOMAIN counts} :
         \A i \in DOMAIN counts : counts[i][2] <= m

\* C4: the weight of token t of author a is
\* (tf_a(t) / max tf of a) * (ln((1 + D) / (1 + df(t))) + 1), with D the number
\* of counters and df(t) the number of authors whose counter holds t; an empty
\* counter gets an empty weight map, and no denominator is zero.
C4_TfidfFormula ==
  pc # "fold" =>
    /\ KeySeq(tfidf) = KeySeq(token_counts)
    /\ \A i \in DOMAIN token_counts :
         LET counts == token_counts[i][2]
             w      == tfidf[i][2]
             D      == Cardinality(Keys(token_counts))
         IN  /\ KeySeq(w.items) = KeySeq(counts)
             /\ w.den = LargestCount(counts) * LnScale
             /\ w.den # 0
             /\ \A j \in DOMAIN counts :
                  w.items[j][2] =
                    counts[j][2]
                    * (LnTable[1 + D]
                       - LnTable[1 + Cardinality(DocsWith(counts[j][1]))]
                       + LnScale)

\* two authors share a token, one of them has a token of his own and a token
\* below his largest count
C4_Witness ==
  /\ pc = "payload"
  /\ Cardinality(Keys(token_counts)) = 2
  /\ \E i \in DOMAIN token_counts :
       \E j, k \in DOMAIN token_counts[i][2] :
         /\ Cardinality(DocsWith(token_counts[i][2][j][1])) = 2
         /\ Cardinality(DocsWith(token_counts[i][2][k][1])) = 1
         /\ token_counts[i][2][k][2] < LargestCount(token_counts[i][2])

\* the weight n / w.den is below the weight m / v.den
WeightLess(n, w, m, v) == n * (v.den \div LnScale) < m * (w.den \div LnScale)

\* a token of every vocabulary weighs less than a token of one vocabulary with
\* the same normalized term frequency
RareWeighsMore ==
  \A i, k \in DOMAIN token_counts :
    \A j \in DOMAIN token_counts[i][2], l \in DOMAIN token_counts[k][2] :
      LET t == token_counts[i][2][j]
          u == token_counts[k][2][l]
      IN  ( /\ Cardinality(DocsWith(t[1])) = Cardinality(Keys(token_counts))
            /\ Cardinality(DocsWith(u[1])) = 1
            /\ t[2] * LargestCount(token_counts[k][2])
                 = u[2] * LargestCount(token_counts[i][2]) )
          => WeightLess(tfidf[i][2].items[j][2], tfidf[i][2],
                        tfidf[k][2].items[l][2], tfidf[k][2])

\* C5 as claimed: for any corpus, a token of every author's vocabulary weighs
\* strictly less than a token of exactly one author's vocabulary with the same
\* normalized term frequency.
C5_AnyCorpus == pc # "fold" => RareWeighsMore

\* C5 as amended: the same, for a corpus of at least two authors.
C5_TwoAuthors ==
  (pc # "fold" /\ Cardinality(Keys(token_counts)) >= 2) => RareWeighsMore

\* two authors, a token of both and a token of one with the same normalized
\* term frequency
C5_Witness ==
  /\ pc = "payload"
  /\ Cardinality(Keys(token_counts)) = 2
  /\ \E i, k \in DOMAIN token_counts :
       \E j \in DOMAIN token_counts[i][2], l \in DOMAIN token_counts[k][2] :
         /\ Cardinality(DocsWith(token_counts[i][2][j][1])) = 2
         /\ Cardinality(DocsWith(token_counts[k][2][l][1])) = 1
         /\ token_counts[i][2][j][2] * LargestCount(token_counts[k][2])
              = token_counts[k][2][l][2] * LargestCount(token_counts[i][2])

\* the lexical tokens of a raw message
TokensOf(msg) == tokenize(normalize_content(msg))

\* the score of a raw message under the weights of the call
CallScoreOf(msg) == Score(TokensOf(msg), call.weights)

\* the positions of the call's messages that hold a lexical token
WithTokens == {i \in DOMAIN call.messages : TokensOf(call.messages[i]) # <<>>}

\* C6 as claimed: pick_representative_message returns none if and only if no
\* message has a lexical token, and a returned message is one with a token.
C6_NoneIffNoTokens ==
  call.fn = "pick" =>
    /\ (call.result = <<>>) <=> (WithTokens = {})
    /\ call.result # <<>> => \E i \in WithTokens : call.result = <<call.messages[i]>>

\* C6 as amended: pick_representative_message returns none if and only if no
\* message with a lexical token has a score above 0, and a returned message
\* is one with a token.
C6_NoneIffNoPositiveScore ==
  call.fn = "pick" =>
    /\ (call.result = <<>>)
         <=> (\A i \in WithTokens : ~FracGT(CallScoreOf(call.messages[i]), ZeroScore))
    /\ call.result # <<>> => \E i \in WithTokens : call.result = <<call.messages[i]>>

\* a message with tokens of weight 0 only comes before one of positive score,
\* and the latter is returned
C6_Witness ==
  /\ call.fn = "pick"
  /\ Len(call.messages) = 2
  /\ call.messages[1] = TextGG
  /\ CallScoreOf(TextGG) = <<0, 3>>
  /\ call.result = <<TextWPGG>>

\* C7: a returned message has the largest score of the messages with a token,
\* and is the earliest of the list with that score.
C7_MaxScoreFirstSeen ==
  (call.fn = "pick" /\ call.result # <<>>) =>
    \E i \in WithTokens :
      /\ call.result = <<call.messages[i]>>
      /\ \A j \in WithTokens :
           ~FracGT(CallScoreOf(call.messages[j]), CallScoreOf(call.messages[i]))
      /\ \A j \in WithTokens :
           j < i => FracGT(CallScoreOf(call.messages[i]), CallScoreOf(call.messages[j]))

\* two different messages tie for the largest score, behind one of a smaller
\* score, and the first of the two is returned
C7_Witness ==
  /\ call.fn = "pick"
  /\ Len(call.messages) = 3
  /\ call.messages[2] # call.messages[3]
  /\ FracEQ(CallScoreOf(call.messages[2]), CallScoreOf(call.messages[3]))
  /\ FracGT(CallScoreOf(call.messages[2]), CallScoreOf(call.messages[1]))
  /\ FracGT(CallScoreOf(call.messages[1]), ZeroScore)
  /\ call.result = <<call.messages[2]>>

\* C8: score_messages returns no two messages of the same normalized text, and
\* a returned message is the earliest of the list with its normalized text.
C8_DedupFirstOccurrence ==
  call.fn = "score" =>
    /\ \A k, l \in DOMAIN call.result :
         k # l => normalize_content(call.result[k][1]) # normalize_content(call.result[l][1])
    /\ \A k \in DOMAIN call.result :
         \E i \in DOMAIN call.messages :
           /\ call.messages[i] = call.result[k][1]
           /\ \A j \in 1..(i - 1) :
                normalize_content(call.messages[j]) # normalize_content(call.messages[i])

\* two different messages of the same normalized text are in the list, and
\* the first of them is returned
C8_Witness ==
  /\ call.fn = "score"
  /\ call.messages = <<TextGGLink, TextGG, TextNice>>
  /\ Len(call.result) = 2
  /\ \E k \in DOMAIN call.result : call.result[k][1] = TextGGLink

\* the normalized texts of the call's messages that score_messages may return
Eligible ==
  {normalize_content(call.messages[i]) : i \in
     {j \in DOMAIN call.messages :
        /\ Len(TokensOf(call.messages[j])) >= 3
        /\ FracGT(CallScoreOf(call.messages[j]), ZeroScore)}}

\* C9: every entry of score_messages has at least 3 tokens and a score above
\* 0, the entries are in non-increasing score order, there are at most limit
\* of them, and no eligible message left out scores higher than one returned.
C9_TopLimitEligible ==
  call.fn = "score" =>
    /\ \A k \in DOMAIN call.result :
         /\ Len(TokensOf(call.result[k][1])) >= 3
         /\ call.result[k][2] = CallScoreOf(call.result[k][1])
         /\ FracGT(call.result[k][2], ZeroScore)
    /\ \A k, l \in DOMAIN call.result :
         k < l => ~FracGT(call.result[l][2], call.result[k][2])
    /\ Len(call.result) <= call.limit
    /\ Len(call.result) =
         IF Cardinality(Eligible) < call.limit THEN Cardinality(Eligible) ELSE call.limit
    /\ \A i \in DOMAIN call.messages :
         ( /\ normalize_content(call.messages[i]) \in Eligible
           /\ \A k \in DOMAIN call.result :
                normalize_content(call.result[k][1]) # normalize_content(call.messages[i]) )
         => \A k \in DOMAIN call.result :
              ~FracGT(CallScoreOf(call.messages[i]), call.result[k][2])

\* three eligible messages in increasing score order, the two best returned,
\* the best first
C9_Witness ==
  /\ call.fn = "score"
  /\ call.limit = 2
  /\ Cardinality(Eligible) = 3
  /\ FracGT(CallScoreOf(call.messages[2]), CallScoreOf(call.messages[1]))
  /\ FracGT(CallScoreOf(call.messages[3]), CallScoreOf(call.messages[2]))
  /\ call.result = << <<call.messages[3], CallScoreOf(call.messages[3])>>,
                      <<call.messages[2], CallScoreOf(call.messages[2])>> >>

\* the rows of the corpus that give author a a quote: the author is read, the
\* message has a token and as many tokens as min_quote_words
QuoteRows(a) ==
  {i \in DOMAIN corpus :
     /\ corpus[i].author_id = a
     /\ a \in Keys(USER_ID_ALIASES)
     /\ TokensOf(corpus[i].content) # <<>>
     /\ Len(TokensOf(corpus[i].content)) >= args.min_quote_words}

\* the quote of row i of the corpus
QuoteAt(i) == JoinSpace(TokensOf(corpus[i].content))

\* the messages of the rows of S
RECURSIVE CopiesOf(_)
CopiesOf(S) ==
  IF S = {} THEN 0
  ELSE LET i == CHOOSE j \in S : TRUE
       IN  corpus[i].copies + CopiesOf(S \ {i})

\* the number of messages of author a with quote q
QuoteCount(a, q) == CopiesOf({i \in QuoteRows(a) : QuoteAt(i) = q})

\* the first row of author a with quote q
QuoteFirst(a, q) ==
  CHOOSE i \in QuoteRows(a) :
    QuoteAt(i) = q /\ \A j \in QuoteRows(a) : QuoteAt(j) = q => i <= j

\* quote q goes before quote r in the list of author a
QuoteBefore(a, q, r) ==
  \/ QuoteCount(a, q) > QuoteCount(a, r)
  \/ QuoteCount(a, q) = QuoteCount(a, r) /\ QuoteFirst(a, q) < QuoteFirst(a, r)

\* L lists the quotes of author a with their counts, larger counts first,
\* equal counts in order of first occurrence, cut to quotes_per_user
RankedQuotes(a, L) ==
  LET Q == {QuoteAt(i) : i \in QuoteRows(a)}
  IN  /\ \A k \in DOMAIN L : L[k][1] \in Q /\ L[k][2] = QuoteCount(a, L[k][1])
      /\ \A k, l \in DOMAIN L : k < l => QuoteBefore(a, L[k][1], L[l][1])
      /\ Len(L) = IF Cardinality(Q) < args.quotes_per_user
                    THEN Cardinality(Q) ELSE args.quotes_per_user
      /\ \A q \in Q :
           (\A k \in DOMAIN L : L[k][1] # q)
             => \A k \in DOMAIN L : QuoteBefore(a, L[k][1], q)

\* C10: the quotes of an author are the space-joined token sequences of the
\* author's qualifying messages with at least min_quote_words tokens, each
\* with the number of its messages, larger counts first, equal counts in
\* order of first occurrence, cut to quotes_per_user; the payload of an
\* author holds this list.
C10_QuotesRanked ==
  /\ \A a \in AuthorIds : RankedQuotes(a, QuotesOf(a))
  /\ \A i \in DOMAIN payload_cache :
       RankedQuotes(payload_cache[i][1], payload_cache[i][2].quotes)

\* 'gg gg gg', 'nice game well played', 'gg gg gg' with a minimum of 2
C10_Witness ==
  /\ args.min_quote_words = 2
  /\ Len(corpus) = 3
  /\ \A i \in DOMAIN corpus : corpus[i].author_id = Aaron
  /\ <<corpus[1].content, corpus[2].content, corpus[3].content>>
       = <<TextGG, TextNice, TextGG>>
  /\ QuotesOf(Aaron) = << <<TextGG, 2>>, <<TextNice, 1>> >>

\* the number of elements of data below v
Below(data, v) == Cardinality({j \in DOMAIN data : data[j] < v})

\* the number of elements of data up to v
UpTo(data, v) == Cardinality({j \in DOMAIN data : data[j] <= v})

\* the element at index i, counted from 0, of data in ascending order
Ranked(data, i) ==
  CHOOSE v \in {data[j] : j \in DOMAIN data} : Below(data, v) <= i /\ i < UpTo(data, v)

\* C11: percentile returns 0 for an empty list; otherwise, with k = (n-1)*p,
\* the element at index k of the ascending data when k is an integer, and else
\* the element at floor k plus the fraction of k times the step to the element
\* at ceil k; a list of one element gives the element, and [1,2,3,4] at 0.5
\* gives 2.5.
C11_Percentile ==
  call.fn = "percentile" =>
    LET n     == Len(call.data)
        p     == call.pct
        k_num == (n - 1) * p[1]
        fl    == k_num \div p[2]
    IN  /\ n = 0 => call.result = <<0, 1>>
        /\ (n > 0 /\ k_num % p[2] = 0) => FracEQ(call.result, <<Ranked(call.data, fl), 1>>)
        /\ (n > 0 /\ k_num % p[2] # 0) =>
             FracEQ(call.result,
                    <<Ranked(call.data, fl) * p[2]
                        + (Ranked(call.data, fl + 1) - Ranked(call.data, fl))
                            * (k_num - fl * p[2]),
                      p[2]>>)
        /\ n = 1 => FracEQ(call.result, <<call.data[1], 1>>)
        /\ (n = 4 /\ {call.data[j] : j \in 1..n} = {1, 2, 3, 4} /\ p = <<1, 2>>)
             => FracEQ(call.result, <<5, 2>>)

\* the median of an unsorted list of four is halfway between its middle two
C11_Witness ==
  /\ call.fn = "percentile"
  /\ call.data = <<4, 1, 3, 2>>
  /\ call.pct = <<1, 2>>
  /\ call.result = <<5, 2>>

\* the value 1: dot / (sqrt(sq_a) * sqrt(sq_b)) with dot = sq_a = sq_b > 0
SimIsOne(r) == r.dot > 0 /\ r.dot = r.sq_a /\ r.dot = r.sq_b

\* C12 as claimed: cosine_similarity(v, v) is 1 for every non-empty weight
\* map v.
C12_SelfSimilarityOne ==
  (call.fn = "cosine" /\ call.vec_a = call.vec_b /\ call.vec_a.items # <<>>)
    => SimIsOne(call.result)

\* C12 as amended: cosine_similarity(v, v) is 1 for every weight map v with a
\* weight other than 0, and 0 for a non-empty map whose weights are all 0.
C12_SelfSimilarityOneOrZero ==
  (call.fn = "cosine" /\ call.vec_a = call.vec_b /\ call.vec_a.items # <<>>)
    => IF \E i \in DOMAIN call.vec_a.items : call.vec_a.items[i][2] # 0
         THEN SimIsOne(call.result)
         ELSE call.result = ZeroSim

\* a map of two weights other than 0 is compared with itself
C12_Witness ==
  /\ call.fn = "cosine"
  /\ call.vec_a = call.vec_b
  /\ Len(call.vec_a.items) = 2
  /\ \A i \in DOMAIN call.vec_a.items : call.vec_a.items[i][2] > 0
  /\ SimIsOne(call.result)

\* the weight of key k in map vec, in thousandths, 0 for a key it lacks
WeightOf(vec, k) ==
  IF k \in Keys(vec.items)
    THEN (Lookup(vec.items, k, 0) * WeightScale) \div vec.den ELSE 0

RECURSIVE SumOver(_, _, _, _)
\* the sum of the products of the weights of the keys of S in maps va and vb
SumOver(S, va, vb, acc) ==
  IF S = {} THEN acc
  ELSE LET k == CHOOSE x \in S : TRUE
       IN  SumOver(S \ {k}, va, vb, acc + WeightOf(va, k) * WeightOf(vb, k))

\* the square of the L2 norm of vec
NormSq(vec) == SumOver(Keys(vec.items), vec, vec, 0)

\* C13: cosine_similarity returns 0 whenever either map is empty or either
\* norm is 0, and no result has a norm of 0 under it; otherwise it returns the
\* dot product over the shared keys over the product of the two full norms;
\* the result for (a, b) is the result for (b, a).
C13_CosineGuardedAndSymmetric ==
  call.fn = "cosine" =>
    LET a == call.vec_a
        b == call.vec_b
    IN  /\ call.result.sq_a > 0 /\ call.result.sq_b > 0
        /\ (a.items = <<>> \/ b.items = <<>> \/ NormSq(a) = 0 \/ NormSq(b) = 0)
             => call.result = ZeroSim
        /\ ~(a.items = <<>> \/ b.items = <<>> \/ NormSq(a) = 0 \/ NormSq(b) = 0)
             => call.result =
                  [dot  |-> SumOver(Keys(a.items) \cap Keys(b.items), a, b, 0),
                   sq_a |-> NormSq(a), sq_b |-> NormSq(b)]
        /\ call.swapped.dot = call.result.dot
        /\ call.swapped.sq_a = call.result.sq_b
        /\ call.swapped.sq_b = call.result.sq_a

\* two maps that share one key of two each, in denominators that differ
C13_Witness ==
  /\ call.fn = "cosine"
  /\ call.vec_a.den # call.vec_b.den
  /\ Cardinality(Keys(call.vec_a.items) \cap Keys(call.vec_b.items)) = 1
  /\ Len(call.vec_a.items) = 2
  /\ Len(call.vec_b.items) = 2
  /\ call.result.dot > 0
  /\ call.result.sq_a # call.result.sq_b

\* the names of the neighbours printed at position i of the output
NearestNames(i) ==
  {output.neighbors[i].nearest[k][1] : k \in DOMAIN output.neighbors[i].nearest}

\* C14: in the JSON document and in the text, the neighbours printed for an
\* author never hold that author.
C14_NoSelfNeighbour ==
  pc = "done" =>
    \A i \in DOMAIN output.neighbors :
      output.neighbors[i].author \notin NearestNames(i)

\* three authors have a style card; the first is printed with the two others
\* as its neighbours
C14_Witness ==
  /\ pc = "done"
  /\ Len(author_order) = 3
  /\ output.neighbors # <<>>
  /\ Cardinality(NearestNames(1)) = 2
  /\ output.neighbors[1].author \notin NearestNames(1)

Min(a, b) == IF a < b THEN a ELSE b

\* the arguments of the command line that set how many items are shown
CountArgs == {"top", "quotes_per_user"}

\* C15 as claimed: the caller sets the number K of neighbours of an author, so
\* that an author is printed with min(K, other candidates) neighbours.
C15_CallerSetsK ==
  pc = "done" =>
    \A i \in DOMAIN output.neighbors :
      \E f \in CountArgs :
        Len(output.neighbors[i].nearest) = Min(args[f], Len(author_order) - 1)

\* C15 as amended: an author is printed with min(3, other candidates)
\* neighbours, whatever the command line.
C15_ThreeNeighbours ==
  pc = "done" =>
    \A i \in DOMAIN output.neighbors :
      Len(output.neighbors[i].nearest) = Min(3, Len(author_order) - 1)

\* with --top 1 and --quotes-per-user 1 an author is printed with two
\* neighbours
C15_Witness ==
  /\ pc = "done"
  /\ args.top = 1
  /\ args.quotes_per_user = 1
  /\ Len(output.neighbors) = 1
  /\ Len(output.neighbors[1].nearest) = 2

\* the items of seq are in non-increasing order of their second component
NonIncreasing(seq) == \A k, l \in DOMAIN seq : k < l => seq[k][2] >= seq[l][2]

\* the hours of seq are in non-increasing order of their count in counter
HoursNonIncreasing(seq, counter) ==
  \A k, l \in DOMAIN seq :
    k < l => Lookup(counter, seq[k], 0) >= Lookup(counter, seq[l], 0)

\* the tables of the payload of aid are sorted, and table t holds
\* min(N[t], entries of its counter) items
TablesOf(aid, p, N) ==
  /\ NonIncreasing(p.top_tokens)
  /\ NonIncreasing(p.openers1) /\ NonIncreasing(p.openers2)
  /\ NonIncreasing(p.closers1) /\ NonIncreasing(p.closers2)
  /\ NonIncreasing(p.quotes)
  /\ HoursNonIncreasing(p.hour_peaks, Lookup(hours_by_author, aid, <<>>))
  /\ Len(p.top_tokens) = Min(N.top_tokens, Len(Lookup(token_counts, aid, <<>>)))
  /\ Len(p.openers1) = Min(N.openers1, Len(Lookup(opener1_by_author, aid, <<>>)))
  /\ Len(p.openers2) = Min(N.openers2, Len(Lookup(opener2_by_author, aid, <<>>)))
  /\ Len(p.closers1) = Min(N.closers1, Len(Lookup(closer1_by_author, aid, <<>>)))
  /\ Len(p.closers2) = Min(N.closers2, Len(Lookup(closer2_by_author, aid, <<>>)))
  /\ Len(p.hour_peaks) = Min(N.hour_peaks, Len(Lookup(hours_by_author, aid, <<>>)))
  /\ Len(p.quotes) = Min(N.quotes, Len(Lookup(quotes_by_author, aid, <<>>)))

TableNames ==
  {"top_tokens", "openers1", "openers2", "closers1", "closers2", "hour_peaks", "quotes"}

\* C16 as claimed: every Top-N table of a payload is sorted by count or weight
\* in non-increasing order, and the caller sets the size of each table with
\* an argument of the command line.
C16_CallerSetsSizes ==
  \A i \in DOMAIN payload_cache :
    \E N \in [TableNames -> {args[f] : f \in CountArgs}] :
      TablesOf(payload_cache[i][1], payload_cache[i][2], N)

\* C16 as amended: every Top-N table of a payload is sorted by count or weight
\* in non-increasing order; the size of the quotes table is --quotes-per-user
\* and the sizes of the other tables are fixed: 8 top tokens, 5 openers and
\* closers of each kind, 3 hours.
C16_SortedFixedSizes ==
  \A i \in DOMAIN payload_cache :
    TablesOf(payload_cache[i][1], payload_cache[i][2],
             [top_tokens |-> 8, openers1 |-> 5, openers2 |-> 5, closers1 |-> 5,
              closers2 |-> 5, hour_peaks |-> 3, quotes |-> args.quotes_per_user])

\* an author of nine tokens has a table of eight, and an author of two quotes
\* a table of one
C16_Witness ==
  /\ pc = "output"
  /\ args.quotes_per_user = 1
  /\ \E i \in DOMAIN payload_cache :
       /\ Len(Lookup(token_counts, payload_cache[i][1], <<>>)) = 9
       /\ Len(payload_cache[i][2].top_tokens) = 8
  /\ \E i \in DOMAIN payload_cache :
       /\ Len(Lookup(quotes_by_author, payload_cache[i][1], <<>>)) = 2
       /\ Len(payload_cache[i][2].quotes) = 1

\* C17 as claimed: once the payloads are built, every author with a
\* qualifying message has a payload.
C17_PayloadForEveryAuthor ==
  pc \in {"output", "done"} =>
    \A a \in AuthorIds :
      QualifyingRead(corpus, Len(corpus), a) >= 1 => a \in Keys(payload_cache)

\* C17 as amended: once the payloads are built, the authors with a payload
\* are the authors with at least 100 qualifying messages, and the payload of
\* an author holds the id, the name and the message count of that author and
\* tokens and quotes of that author's counters.
C17_PayloadFromHundred ==
  pc \in {"output", "done"} =>
    /\ Keys(payload_cache)
         = {a \in AuthorIds : QualifyingRead(corpus, Len(corpus), a) >= 100}
    /\ \A i \in DOMAIN payload_cache :
         LET a == payload_cache[i][1]
             p == payload_cache[i][2]
         IN  /\ p.author_id = a
             /\ p.author = Lookup(USER_ID_ALIASES, a, a)
             /\ p.messages = QualifyingRead(corpus, Len(corpus), a)
             /\ Keys(p.top_tokens) \subseteq Keys(Lookup(token_counts, a, <<>>))
             /\ Keys(p.quotes) \subseteq Keys(Lookup(quotes_by_author, a, <<>>))

\* an author of 101 messages has a payload and an author of one message has
\* none
C17_Witness ==
  /\ pc = "output"
  /\ QualifyingRead(corpus, Len(corpus), Aaron) = 1
  /\ QualifyingRead(corpus, Len(corpus), Brian) = 101
  /\ Keys(payload_cache) = {Brian}

\* the text holds a match of https?://\S+
HasUrl(text) ==
  \E i \in DOMAIN text :
    \/ StartsWithAt(text, i, <<"h","t","t","p",":","/","/">>)
         /\ i + 7 <= Len(text) /\ text[i + 7] \notin Whitespace
    \/ StartsWithAt(text, i, <<"h","t","t","p","s",":","/","/">>)
         /\ i + 8 <= Len(text) /\ text[i + 8] \notin Whitespace

HasZwsp(text) == \E i \in DOMAIN text : text[i] = "ZWSP"

\* trimmed is text without its leading and trailing whitespace, and nothing else
IsTrimOf(trimmed, text) ==
  \E lo \in 1..(Len(text) + 1) :
    /\ lo + Len(trimmed) - 1 <= Len(text)
    /\ \A j \in 1..Len(trimmed) : trimmed[j] = text[lo + j - 1]
    /\ \A j \in 1..(lo - 1) : text[j] \in Whitespace
    /\ \A j \in (lo + Len(trimmed))..Len(text) : text[j] \in Whitespace
    /\ trimmed # <<>> => /\ trimmed[1] \notin Whitespace
                        /\ trimmed[Len(trimmed)] \notin Whitespace

\* C18: normalize_content applied to its own result returns that result, and a
\* text that holds no URL and no zero-width space is returned with its leading
\* and trailing whitespace removed and no other change
C18_NormalizeIdempotent ==
  call.fn = "normalize" =>
    /\ call.twice = call.result
    /\ (~HasUrl(call.text) /\ ~HasZwsp(call.text)) => IsTrimOf(call.result, call.text)

\* a text of a URL and a zero-width space was normalized to less, then again
C18_Witness ==
  /\ call.fn = "normalize"
  /\ call.text = <<"x","h","t","t","p",":","/","/","ZWSP">>
  /\ call.result = <<"x">>
  /\ call.twice = <<"x">>

\* a text that holds neither was trimmed of whitespace at both ends
C18_WitnessTrim ==
  /\ call.fn = "normalize"
  /\ call.text = <<" ","h","t","t","\n">>
  /\ call.result = <<"h","t","t">>

\* the positions of lowered where a maximal run of [a-z0-9'] starts
RunStarts(lowered) ==
  {i \in DOMAIN lowered :
     /\ lowered[i] \in TokenChars
     /\ i = 1 \/ lowered[i - 1] \notin TokenChars}

\* the last position of the maximal run that starts at i
RunLast(lowered, i) ==
  CHOOSE j \in i..Len(lowered) :
    /\ \A k \in i..j : lowered[k] \in TokenChars
    /\ j = Len(lowered) \/ lowered[j + 1] \notin TokenChars

RunAt(lowered, i) == SubSeq(lowered, i, RunLast(lowered, i))

\* the token is dropped: one character or less, more than thirty, the noise
\* token, or five digits or more and nothing else
Dropped(t) ==
  \/ Len(t) <= 1
  \/ Len(t) > 30
  \/ t = <<"m","i","s","s","i","n","g">>
  \/ Len(t) >= 5 /\ \A k \in DOMAIN t : t[k] \in Digits

\* C19: tokenize returns no dropped token, and returns exactly the maximal runs
\* of [a-z0-9'] of the lower-cased text that are not dropped, in the order of
\* the text, a run as often as it occurs
C19_Tokens ==
  call.fn = "tokenize" =>
    LET lowered == Lower(call.text)
        kept    == {i \in RunStarts(lowered) : ~Dropped(RunAt(lowered, i))}
        nth(k)  == CHOOSE i \in kept : Cardinality({x \in kept : x < i}) = k - 1
    IN  /\ \A k \in DOMAIN call.result : ~Dropped(call.result[k])
        /\ Len(call.result) = Cardinality(kept)
        /\ \A k \in DOMAIN call.result : call.result[k] = RunAt(lowered, nth(k))

\* a run of thirty characters that the text holds twice was returned twice
C19_Witness ==
  /\ call.fn = "tokenize"
  /\ call.text = Run30 \o <<" ">> \o Run30
  /\ call.result = <<Run30, Run30>>

\* a run of thirty-one characters was dropped
C19_WitnessLong ==
  /\ call.fn = "tokenize"
  /\ call.text = Run30 \o <<"a">>
  /\ call.result = <<>>

\* the noise token in capitals was dropped
C19_WitnessNoise ==
  /\ call.fn = "tokenize"
  /\ call.text = <<"M","i","s","s","i","n","g"," ","g","g">>
  /\ call.result = << <<"g","g">> >>

\* a run of five digits was dropped
C19_WitnessDigits ==
  /\ call.fn = "tokenize"
  /\ call.text = <<"1","2","3","4","5">>
  /\ call.result = <<>>

\* the cost projected for the planned requests of the run
ProjectedCost ==
  SumSeq([k \in DOMAIN llm.requests |->
            estimate_cost(llm.authors[llm.requests[k]], llm.args.max_output_tokens,
                          llm.args)])

\* C20: no request is sent before the budget is checked, and a run whose cost
\* projected over all planned requests is above the budget goes from the check
\* to the abort and nowhere else: it never sends a request
C20_NoRequestOverBudget ==
  llm.pc # "start" =>
    /\ llm.pc \in {"exit", "plan", "check", "aborted", "dry_run"} => llm.sent = <<>>
    /\ llm.pc \notin {"exit", "plan"} => llm.planned_cost = ProjectedCost
    /\ (llm.pc \notin {"exit", "plan"} /\ ProjectedCost > llm.args.budget) =>
         /\ llm.pc \in {"check", "aborted"}
         /\ llm.sent = <<>>

\* a run that is at the check with a projected cost above the budget aborts
\* in its next step
C20_AbortsOverBudget ==
  [][(llm.pc = "check" /\ ProjectedCost > llm.args.budget) => llm'.pc = "aborted"]_vars

\* two requests were planned, neither above the budget alone, their sum above
\* it: the run, not a dry run, aborted with nothing sent
C20_Witness ==
  /\ llm.pc = "aborted"
  /\ ~llm.args.dry_run
  /\ Len(llm.requests) = 2
  /\ \A k \in DOMAIN llm.requests :
       estimate_cost(llm.authors[llm.requests[k]], llm.args.max_output_tokens,
                     llm.args) <= llm.args.budget
  /\ ProjectedCost > llm.args.budget
  /\ llm.sent = <<>>

\* a run whose projected cost equals the budget sent its request
C20_WitnessAtBudget ==
  /\ llm.pc = "done"
  /\ ProjectedCost = llm.args.budget
  /\ llm.sent = <<1>>

\* what the accumulators A hold for author b
AuthorView(A, b) ==
  [messages     |-> Lookup(A.messages_by_author, b, <<>>),
   tokens       |-> Lookup(A.token_counts, b, <<>>),
   quotes       |-> Lookup(A.quotes_by_author, b, <<>>),
   raw          |-> Lookup(A.raw_message_counts, b, 0),
   word_lengths |-> Lookup(A.word_lengths_by_author, b, <<>>),
   char_lengths |-> Lookup(A.char_lengths_by_author, b, <<>>),
   char_count   |-> Lookup(A.char_count_by_author, b, 0),
   links        |-> Lookup(A.link_counts_by_author, b, 0),
   hours        |-> Lookup(A.hours_by_author, b, <<>>),
   opener1      |-> Lookup(A.opener1_by_author, b, <<>>),
   opener2      |-> Lookup(A.opener2_by_author, b, <<>>),
   closer1      |-> Lookup(A.closer1_by_author, b, <<>>),
   closer2      |-> Lookup(A.closer2_by_author, b, <<>>)]

\* the accumulators A with the entries of every author but a removed
OnlyAuthor(A, a) ==
  LET own(d) == SelectSeq(d, LAMBDA item : item[1] = a)
  IN  [messages_by_author     |-> own(A.messages_by_author),
       token_counts           |-> own(A.token_counts),
       quotes_by_author       |-> own(A.quotes_by_author),
       raw_message_counts     |-> own(A.raw_message_counts),
       word_lengths_by_author |-> own(A.word_lengths_by_author),
       char_lengths_by_author |-> own(A.char_lengths_by_author),
       char_count_by_author   |-> own(A.char_count_by_author),
       link_counts_by_author  |-> own(A.link_counts_by_author),
       hours_by_author        |-> own(A.hours_by_author),
       opener1_by_author      |-> own(A.opener1_by_author),
       opener2_by_author      |-> own(A.opener2_by_author),
       closer1_by_author      |-> own(A.closer1_by_author),
       closer2_by_author      |-> own(A.closer2_by_author)]

\* C21: reading a row of author A leaves what the accumulators hold for every
\* other author as it was, and what they then hold for A is what the same pass
\* gives from A's entries alone; so what the accumulators hold for an author
\* at the end is given by that author's own rows in their order, whatever
\* rows of other authors lie between them
C21_OwnAccumulatorOnly ==
  [][Len(corpus') = Len(corpus) + 1 =>
       \E msg \in {corpus'[Len(corpus')]}, before \in {Accs}, after \in {Accs'} :
         /\ \A b \in AuthorIds \ {msg.author_id} :
              AuthorView(after, b) = AuthorView(before, b)
         /\ msg.author_id \in Keys(USER_ID_ALIASES) =>
              \E own \in {LoopBodyTimes(OnlyAuthor(before, msg.author_id),
                                        msg.author_id, Features(msg),
                                        args.min_quote_words, msg.copies)} :
                AuthorView(after, msg.author_id) = AuthorView(own, msg.author_id)]_vars

\* a row of Brian was read between two qualifying rows of Ryan
C21_Witness ==
  /\ Len(corpus) = 3
  /\ corpus[1].author_id = Ryan /\ corpus[1].content = TextOne
  /\ corpus[2].author_id = Brian /\ corpus[2].content = TextGGWP
  /\ corpus[3].author_id = Ryan /\ corpus[3].content = TextOne
  /\ Lookup(raw_message_counts, Ryan, 0) = 2
  /\ Lookup(raw_message_counts, Brian, 0) = MinMessages

\* the counter new is the counter old with count added to each key of keys
Gets(old, new, keys, count) ==
  \A k \in Keys(old) \cup Keys(new) \cup keys :
    Lookup(new, k, 0) = Lookup(old, k, 0) + (IF k \in keys THEN count ELSE 0)

\* the messages read of author a that hold at least n lexical tokens
MessagesWithTokens(a, n) ==
  CopiesOf({i \in DOMAIN corpus :
              /\ corpus[i].author_id = a
              /\ a \in Keys(USER_ID_ALIASES)
              /\ Len(Tokenized(Normalized(corpus[i].content))) >= n})

\* C22: a folded message with tokens t1..tn, n >= 1, adds t1 to the opener
\* unigrams and tn to the closer unigrams of its author, and only when n >= 2
\* 't1 t2' to the opener bigrams and 't(n-1) tn' to the closer bigrams; so for
\* every author the opener and closer unigram totals both equal the number
\* of folded messages with a token, and the bigram totals the number of
\* folded messages with two tokens or more
C22_OpenersAndClosers ==
  /\ [](\A a \in AuthorIds :
          /\ CounterTotal(Lookup(opener1_by_author, a, <<>>)) = MessagesWithTokens(a, 1)
          /\ CounterTotal(Lookup(closer1_by_author, a, <<>>)) = MessagesWithTokens(a, 1)
          /\ CounterTotal(Lookup(opener2_by_author, a, <<>>)) = MessagesWithTokens(a, 2)
          /\ CounterTotal(Lookup(closer2_by_author, a, <<>>)) = MessagesWithTokens(a, 2))
  /\ [][Len(corpus') = Len(corpus) + 1 =>
         \E msg \in {corpus'[Len(corpus')]}, before \in {Accs}, after \in {Accs'} :
           LET a == msg.author_id
               t == Tokenized(Normalized(msg.content))
               n == Len(t)
               of(d) == Lookup(d, a, <<>>)
           IN  (a \in Keys(USER_ID_ALIASES) /\ n >= 1) =>
                 /\ Gets(of(before.opener1_by_author), of(after.opener1_by_author),
                         {t[1]}, msg.copies)
                 /\ Gets(of(before.closer1_by_author), of(after.closer1_by_author),
                         {t[n]}, msg.copies)
                 /\ Gets(of(before.opener2_by_author), of(after.opener2_by_author),
                         IF n >= 2 THEN {t[1] \o <<" ">> \o t[2]} ELSE {}, msg.copies)
                 /\ Gets(of(before.closer2_by_author), of(after.closer2_by_author),
                         IF n >= 2 THEN {t[n - 1] \o <<" ">> \o t[n]} ELSE {},
                         msg.copies)]_vars

\* a message of one token and messages of three tokens were folded: the
\* message of one token is in the unigram counters alone
C22_Witness ==
  /\ Len(corpus) = 2
  /\ corpus[1].author_id = Ryan /\ corpus[1].content = TextOne
  /\ corpus[2].author_id = Aaron /\ corpus[2].content = TextGGUrl
  /\ Lookup(opener1_by_author, Ryan, <<>>) = << <<TextOne, 1>> >>
  /\ Lookup(closer1_by_author, Ryan, <<>>) = << <<TextOne, 1>> >>
  /\ Lookup(opener2_by_author, Ryan, <<>>) = <<>>
  /\ Lookup(closer2_by_author, Ryan, <<>>) = <<>>
  /\ Lookup(opener2_by_author, Aaron, <<>>) = << <<<<"g","g"," ","g","g">>, MinMessages>> >>
  /\ Lookup(closer2_by_author, Aaron, <<>>) = << <<<<"g","g"," ","g","g">>, MinMessages>> >>

\* the result of the call keeps the last lines of the call's lines, in their
\* order, totals their tokens, and keeps all lines or stops at a line that
\* would take the total above max_tokens
KeepsLongestSuffix ==
  LET lines == call.lines
      kept  == call.result.kept
      k     == Len(kept)
  IN  /\ k <= Len(lines)
      /\ \A j \in 1..k : kept[j] = lines[Len(lines) - k + j]
      /\ call.result.tokens_used = SumSeq([j \in 1..k |-> count_tokens(kept[j])])
      /\ \/ k = Len(lines)
         \/ call.result.tokens_used + count_tokens(lines[Len(lines) - k]) > call.max_tokens

\* C23 as claimed: the kept lines are a suffix of the lines in their order,
\* the returned total is the sum of their token counts and is at most
\* max_tokens, and the suffix is maximal.
C23_TotalWithinMax ==
  call.fn = "truncate" =>
    /\ KeepsLongestSuffix
    /\ call.result.tokens_used <= call.max_tokens

\* C23 as amended: the same, the total being at most max_tokens when
\* max_tokens is not negative; for a negative max_tokens no line is kept and
\* the total is 0.
C23_TotalWithinMaxFromZero ==
  call.fn = "truncate" =>
    /\ KeepsLongestSuffix
    /\ call.max_tokens >= 0 => call.result.tokens_used <= call.max_tokens
    /\ call.max_tokens < 0 => call.result = [kept |-> <<>>, tokens_used |-> 0]

\* the oldest of three lines was trimmed, the two newer ones fill max_tokens
C23_Witness ==
  /\ call.fn = "truncate"
  /\ call.lines = <<LineNiceGame, LineOk, LineGGWP>>
  /\ call.max_tokens = 3
  /\ call.result = [kept |-> <<LineOk, LineGGWP>>, tokens_used |-> 3]

\* the price of an input token and of an output token in estimate_cost
InputPriceUsed == estimate_cost(1, 0, llm.args)

OutputPriceUsed == estimate_cost(0, 1, llm.args)

\* C24: a model, an input price, an output price or a temperature that the
\* command line gives is the one used to estimate the cost and to make the
\* request, in test mode and in prod mode
C24_ExplicitOptionsUsed ==
  llm.pc # "start" =>
    /\ llm.cli.model # NotGiven =>
         /\ llm.args.model = llm.cli.model[1]
         /\ llm.api_params # NoParams => llm.api_params.model = llm.cli.model[1]
    /\ llm.cli.input_price # NotGiven => InputPriceUsed = llm.cli.input_price[1]
    /\ llm.cli.output_price # NotGiven => OutputPriceUsed = llm.cli.output_price[1]
    /\ (llm.cli.temperature # NotGiven /\ llm.api_params # NoParams) =>
         llm.api_params.temperature = llm.cli.temperature

\* in prod mode the command line gave the temperature 0.3 and the request
\* was made with the temperature of the mode
C24_Witness ==
  /\ llm.pc = "done"
  /\ llm.cli.mode = "prod"
  /\ llm.cli.temperature = Given(DefaultTemperature)
  /\ llm.api_params.temperature = Given(ProdTemperature)

\* what the code does: a model that is given is used; a price that is given
\* is used unless it is zero or the parser's default; a temperature that is
\* given is sent unless it is the parser's default or the model is an o1 model
C24_ExplicitUsedUnlessDefault ==
  llm.pc # "start" =>
    /\ llm.cli.model # NotGiven =>
         /\ llm.args.model = llm.cli.model[1]
         /\ llm.api_params # NoParams => llm.api_params.model = llm.cli.model[1]
    /\ llm.cli.input_price \notin {NotGiven, Given(0), Given(INPUT_PRICE_PER_TOKEN)}
         => InputPriceUsed = llm.cli.input_price[1]
    /\ llm.cli.output_price \notin {NotGiven, Given(0), Given(OUTPUT_PRICE_PER_TOKEN)}
         => OutputPriceUsed = llm.cli.output_price[1]
    /\ ( /\ llm.cli.temperature \notin {NotGiven, Given(DefaultTemperature)}
         /\ llm.api_params # NoParams
         /\ ~is_o1_model(llm.args.model) )
         => llm.api_params.temperature = llm.cli.temperature

\* the lexical tokens of the stored messages of author a
StoredTokens(a) ==
  UNION { {t[k] : k \in DOMAIN t} :
          t \in {Tokenized(Normalized(m)) :
                   m \in {Lookup(messages_by_author, a, <<>>)[k] :
                            k \in DOMAIN Lookup(messages_by_author, a, <<>>)}} }

\* C25: once the TF-IDF vectors are computed, the keys of an author's vector
\* are the keys of the author's token counter, every weight is above zero and
\* every lexical token of every stored message of the author is a key; and
\* the representative message of a payload is not None when a stored message
\* of its author holds a lexical token
C25_TokensWeighted ==
  pc # "fold" =>
    /\ \A a \in Keys(token_counts) :
         LET vec == Lookup(tfidf, a, EmptyWeights)
         IN  /\ Keys(vec.items) = Keys(Lookup(token_counts, a, <<>>))
             /\ vec.den > 0
             /\ \A j \in DOMAIN vec.items : vec.items[j][2] > 0
             /\ StoredTokens(a) \subseteq Keys(vec.items)
    /\ \A i \in DOMAIN payload_cache :
         StoredTokens(payload_cache[i][1]) # {} => payload_cache[i][2].representative # <<>>

\* the payloads of two authors who share a token are built, each with a
\* representative message
C25_Witness ==
  /\ pc = "output"
  /\ Keys(payload_cache) = {Aaron, Brian}
  /\ TokGG \in StoredTokens(Aaron) \cap StoredTokens(Brian)
  /\ Lookup(payload_cache, Aaron, <<>>).representative = <<Strip(TextGGUrl)>>
  /\ Lookup(payload_cache, Brian, <<>>).representative = <<TextGGWP>>

\* C26: when score_messages returns a list that is not empty,
\* pick_representative_message returns a message for the same messages and
\* weights, and the score of that message is not below the score of the
\* first entry of the list
C26_PickedScoresHighest ==
  (call.fn = "both" /\ call.result # <<>>) =>
    /\ call.picked # <<>>
    /\ ~FracGT(call.result[1][2], CallScoreOf(call.picked[1]))

\* the picked message has two tokens and scores above the one message that
\* score_messages returns
C26_Witness ==
  /\ call.fn = "both"
  /\ call.messages = <<TextWPGG, TextGGWP>>
  /\ Len(call.result) = 1
  /\ call.result[1][1] = TextWPGG
  /\ call.picked = <<TextGGWP>>
  /\ FracGT(CallScoreOf(TextGGWP), call.result[1][2])

\* the authors with at least 100 qualifying messages among the rows read
Hundred == {a \in AuthorIds : QualifyingRead(corpus, Len(corpus), a) >= MinMessages}

\* the position in the corpus of the first qualifying message of author a
FirstQualifying(a) ==
  CHOOSE n \in DOMAIN corpus :
    QualifyingRead(corpus, n, a) >= 1 /\ QualifyingRead(corpus, n - 1, a) = 0

\* the reported authors have at least 100 qualifying messages each and stand
\* in non-increasing order of message count, ties in the order of their first
\* qualifying messages
ReportedInOrder ==
  /\ \A i \in DOMAIN output.authors : output.authors[i].author_id \in Hundred
  /\ \A i, j \in DOMAIN output.authors :
       i < j =>
         LET a == output.authors[i].author_id
             b == output.authors[j].author_id
             m == QualifyingRead(corpus, Len(corpus), a)
             n == QualifyingRead(corpus, Len(corpus), b)
         IN  m > n \/ (m = n /\ FirstQualifying(a) < FirstQualifying(b))

\* the neighbours of every reported author are the nearest three, or all, of
\* the other authors with at least 100 qualifying messages, reported or not
NeighboursFromHundred ==
  \A i \in DOMAIN output.neighbors :
    /\ NearestNames(i) \subseteq
         {Lookup(authors, b, b) : b \in Hundred \ {output.authors[i].author_id}}
    /\ Len(output.neighbors[i].nearest) = Min(NearestCount, Cardinality(Hundred) - 1)

\* C27 as claimed: the reported author list holds only authors with at least
\* 100 qualifying messages, in non-increasing order of message count with
\* ties in order of first qualifying message, and has at most --top entries;
\* neighbours are drawn from all authors with 100 messages, reported or not.
C27_ReportedAtMostTop ==
  pc = "done" =>
    /\ ReportedInOrder
    /\ Len(output.authors) <= args.top
    /\ NeighboursFromHundred

\* C27 as amended: the same, the list having at most --top entries when
\* --top is not negative.
C27_ReportedAtMostTopFromZero ==
  pc = "done" =>
    /\ ReportedInOrder
    /\ (args.top >= 0 => Len(output.authors) <= args.top)
    /\ NeighboursFromHundred

\* with --top 1 and three authors of 100 messages each, the author whose
\* first message was read first is the one reported, and the two neighbours
\* printed are authors that are not reported
C27_Witness ==
  /\ pc = "done"
  /\ args.top = 1
  /\ Hundred = {Aaron, Brian, Irfan}
  /\ \A a \in Hundred : QualifyingRead(corpus, Len(corpus), a) = MinMessages
  /\ Len(output.authors) = 1
  /\ output.authors[1].author_id = Irfan
  /\ FirstQualifying(Irfan) = 1
  /\ Cardinality(NearestNames(1)) = 2

\* a message of author a has passed the alias filter of the loop
Ingested(a) ==
  /\ \E n \in DOMAIN corpus : corpus[n].author_id = a
  /\ USER_ID_ALIASES # <<>> => a \in Keys(USER_ID_ALIASES)

\* no accumulator has an entry for author a
NoAccumulator(a) == \A f \in DOMAIN Accs : a \notin Keys(Accs[f])

\* the number of qualifying messages read, of all authors
QualifyingTotal ==
  SumSeq([i \in DOMAIN IdOrder |-> QualifyingRead(corpus, Len(corpus), IdOrder[i])])

\* C28: the display-name table holds an author from the first message of
\* that author that the loop takes up, qualifying or not; an author none of
\* whose messages qualifies has no entry in any accumulator and no TF-IDF
\* vector, adds nothing to the total of messages, and is counted in the
\* number of authors of the summary.
C28_NamedBeforeQualifying ==
  /\ Keys(authors) = {a \in AuthorIds : Ingested(a)}
  /\ \A a \in Keys(authors) :
       QualifyingRead(corpus, Len(corpus), a) = 0 =>
         /\ NoAccumulator(a)
         /\ pc # "fold" => a \notin Keys(tfidf)
  /\ pc # "fold" => total_messages = QualifyingTotal
  /\ pc = "done" =>
       /\ output.summary.authors = Cardinality({a \in AuthorIds : Ingested(a)})
       /\ output.summary.messages = QualifyingTotal

\* one message of Aaron, which holds a link and nothing else, and 100
\* messages each of Brian and Irfan have been read: the summary counts three
\* authors and 200 messages, and two authors have a TF-IDF vector
C28_Witness ==
  /\ pc = "done"
  /\ Ingested(Aaron)
  /\ QualifyingRead(corpus, Len(corpus), Aaron) = 0
  /\ NoAccumulator(Aaron)
  /\ Keys(tfidf) = {Brian, Irfan}
  /\ output.summary.authors = 3
  /\ output.summary.messages = 2 * MinMessages

\* the authors with a qualifying message among the rows read
QualifyingAuthors == {a \in AuthorIds : QualifyingRead(corpus, Len(corpus), a) >= 1}

\* author a has qualifying messages, none of which holds a lexical token
WordsOnly(a) == a \in QualifyingAuthors /\ StoredTokens(a) = {}

\* C29: an author whose qualifying messages hold surface words and no
\* lexical token has a token counter, which is empty, and an empty TF-IDF
\* vector; the number of documents in the IDF of every weight of every
\* author counts that author; and the cosine similarity of that author's
\* vector and any other author's is 0.
C29_WordsOnlyAuthorIsDocument ==
  pc # "fold" =>
    \A a \in AuthorIds :
      WordsOnly(a) =>
        /\ a \in Keys(token_counts)
        /\ Lookup(token_counts, a, <<>>) = <<>>
        /\ a \in Keys(tfidf)
        /\ Lookup(tfidf, a, EmptyWeights).items = <<>>
        /\ \A b \in Keys(tfidf) \ {a} :
             LET counts == Lookup(token_counts, b, <<>>)
                 vec    == Lookup(tfidf, b, EmptyWeights)
             IN  /\ \A j \in DOMAIN vec.items :
                      vec.items[j][2] =
                        counts[j][2]
                        * (LnTable[1 + Cardinality(QualifyingAuthors)]
                           - LnTable[1 + Cardinality({x \in AuthorIds :
                                                        vec.items[j][1] \in StoredTokens(x)})]
                           + LnScale)
                 /\ cosine_similarity(Lookup(tfidf, a, EmptyWeights), vec) = ZeroSim
                 /\ cosine_similarity(vec, Lookup(tfidf, a, EmptyWeights)) = ZeroSim
                 /\ SimMilli(cosine_similarity(Lookup(tfidf, a, EmptyWeights), vec)) = 0

\* Brian's one message is of one-letter words and Irfan has 100 messages:
\* Brian's counter and vector are empty, and the weights of Irfan's tokens
\* are those of a corpus of two documents
C29_Witness ==
  /\ pc = "payload"
  /\ QualifyingAuthors = {Brian, Irfan}
  /\ WordsOnly(Brian)
  /\ Brian \in Keys(tfidf)
  /\ Lookup(tfidf, Brian, EmptyWeights).items = <<>>
  /\ Lookup(tfidf, Irfan, EmptyWeights).items # <<>>
  /\ Lookup(tfidf, Irfan, EmptyWeights).items[1][2] =
       Lookup(token_counts, Irfan, <<>>)[1][2] * (LnTable[3] - LnTable[2] + LnScale)

====
